---- MODULE Spec2Model ----
(***************************************************************************)
(* A model of docs/phase2/pr_review_enhancer.py: the heuristic code-quality *)
(* checks (naming, complexity, common issues), the function extraction they *)
(* rest on, report generation, and main's loop over the changed files.      *)
(*                                                                          *)
(* Text is a sequence of one-character strings.  Regular expressions are    *)
(* syntax trees matched by a backtracking matcher that returns its matches  *)
(* in the order Python's re module tries them, so that the first element is *)
(* the match re.search / re.finditer reports.                               *)
(***************************************************************************)
EXTENDS Integers, Sequences, FiniteSets, TLC

VARIABLES
    config,              \* CODE_QUALITY_CHECKS as the run sees it
    cursor_rules,        \* load_cursor_rules(): rule name -> file patterns
    listing,             \* what git diff lists, and what the disk holds
    files_with_content,  \* get_changed_files(): sequence of [path, content]
    pc,                  \* main's position
    idx,                 \* number of files the loop has finished
    all_issues,          \* main's all_issues
    applicable_rule_details, \* main's applicable_rule_details (rule names)
    report,              \* generate_pr_review_report's result
    exit_code            \* what main returns

vars == <<config, cursor_rules, listing, files_with_content, pc, idx,
          all_issues, applicable_rule_details, report, exit_code>>

----------------------------------------------------------------------------
(* Characters *)

NL == "\n"
Lower == {"a","b","c","d","e","f","g","h","i","j","k","l","m",
          "n","o","p","q","r","s","t","u","v","w","x","y","z"}
Upper == {"A","B","C","D","E","F","G","H","I","J","K","L","M",
          "N","O","P","Q","R","S","T","U","V","W","X","Y","Z"}
Digit == {"0","1","2","3","4","5","6","7","8","9"}
Underscore == {"_"}
\* \s of the re module (ASCII part)
Space == {" ", "\t", NL, "\r", "\f"}

\* str.lower() on one character
LowerChar(c) ==
    CASE c = "A" -> "a" [] c = "B" -> "b" [] c = "C" -> "c" [] c = "D" -> "d"
      [] c = "E" -> "e" [] c = "F" -> "f" [] c = "G" -> "g" [] c = "H" -> "h"
      [] c = "I" -> "i" [] c = "J" -> "j" [] c = "K" -> "k" [] c = "L" -> "l"
      [] c = "M" -> "m" [] c = "N" -> "n" [] c = "O" -> "o" [] c = "P" -> "p"
      [] c = "Q" -> "q" [] c = "R" -> "r" [] c = "S" -> "s" [] c = "T" -> "t"
      [] c = "U" -> "u" [] c = "V" -> "v" [] c = "W" -> "w" [] c = "X" -> "x"
      [] c = "Y" -> "y" [] c = "Z" -> "z" [] OTHER -> c

\* str.lower()
StrLower(s) == [i \in 1..Len(s) |-> LowerChar(s[i])]

----------------------------------------------------------------------------
(* String helpers: the str methods the program uses *)

Min(S) == CHOOSE x \in S : \A y \in S : x <= y
Max(S) == CHOOSE x \in S : \A y \in S : x >= y

\* the sequence f[1], ..., f[n] of a function on 1..n, as a tuple
Tuple(f) == <<>> \o f

\* ss[1] \o ss[2] \o ... \o ss[n] for a sequence of sequences (by halves, to
\* keep the evaluation shallow)
Flat(ss) ==
    LET t == Tuple(ss)
        F[lo \in 1..(Len(t) + 1), hi \in 0..Len(t)] ==
            IF lo > hi THEN <<>>
            ELSE IF lo = hi THEN t[lo]
            ELSE F[lo, (lo + hi) \div 2] \o F[(lo + hi) \div 2 + 1, hi]
    IN  F[1, Len(t)]

\* the non-empty elements of a sequence of strings, in order
DropEmpty(s) == Flat([k \in 1..Len(s) |-> IF s[k] # <<>> THEN <<s[k]>> ELSE <<>>])

\* sub in s (substring test); the empty string is in every string
Contains(s, sub) ==
    \E i \in 1..(Len(s) - Len(sub) + 1) : SubSeq(s, i, i + Len(sub) - 1) = sub

\* s.count(c) for a single character c
CountChar(s, c) == Cardinality({i \in 1..Len(s) : s[i] = c})

\* s.split(c) for a single character c: always at least one piece
Split(s, c) ==
    LET \* the pieces of s[lo..hi]; two halves join at the piece they share
        F[lo \in 1..(Len(s) + 1), hi \in 0..Len(s)] ==
            IF lo > hi THEN << <<>> >>
            ELSE IF lo = hi THEN (IF s[lo] = c THEN << <<>>, <<>> >> ELSE << <<s[lo]>> >>)
            ELSE LET a == F[lo, (lo + hi) \div 2]
                     b == F[(lo + hi) \div 2 + 1, hi]
                 IN  SubSeq(a, 1, Len(a) - 1) \o << a[Len(a)] \o b[1] >> \o Tail(b)
    IN  F[1, Len(s)]

\* s.strip(): leading and trailing whitespace removed
Strip(s) ==
    LET keep == {i \in 1..Len(s) : s[i] \notin Space}
    IN  IF keep = {} THEN <<>> ELSE SubSeq(s, Min(keep), Max(keep))

\* s.lstrip(): leading whitespace removed
LStrip(s) ==
    LET keep == {i \in 1..Len(s) : s[i] \notin Space}
    IN  IF keep = {} THEN <<>> ELSE SubSeq(s, Min(keep), Len(s))

----------------------------------------------------------------------------
(* Regular expressions: syntax *)

Lit(s)  == [t |-> "lit", s |-> s]
Cls(cs) == [t |-> "set", cs |-> cs]            \* [...]
NCls(cs) == [t |-> "nset", cs |-> cs]          \* [^...]
Dot == [t |-> "dot"]                           \* . (no DOTALL: not a newline)
Cat(xs) == [t |-> "cat", xs |-> xs]
Alt(xs) == [t |-> "alt", xs |-> xs]
\* x{lo,hi}; hi = -1 is unbounded; greedy or lazy (x*?)
Rep(x, lo, hi, greedy) == [t |-> "rep", x |-> x, lo |-> lo, hi |-> hi, greedy |-> greedy]
Grp(n, x) == [t |-> "grp", n |-> n, x |-> x]   \* capturing group number n
Star(x) == Rep(x, 0, -1, TRUE)
Plus(x) == Rep(x, 1, -1, TRUE)
Opt(x) == Rep(x, 0, 1, TRUE)
LazyStar(x) == Rep(x, 0, -1, FALSE)

\* groups of a match: group number -> <<start, end>>, <<0, 0>> when unset
NoGroups == [n \in 1..3 |-> <<0, 0>>]

\* one character against a single-character pattern (a class, a negated
\* class or the dot)
CharOk(x, c) ==
    CASE x.t = "set" -> c \in x.cs
      [] x.t = "nset" -> c \notin x.cs
      [] x.t = "dot" -> c # NL

\* how many characters of s from index i on match the single-character
\* pattern x
Run(x, s, i) ==
    LET bad == {j \in i..Len(s) : ~CharOk(x, s[j])}
    IN  (IF bad = {} THEN Len(s) + 1 ELSE Min(bad)) - i

\* a repeated single character with cap repetitions at most: every count from
\* re.lo to cap, longest first when greedy and shortest first when lazy
RepChar(re, i, g, cap) ==
    IF cap < re.lo THEN <<>>
    ELSE Tuple([k \in 1..(cap - re.lo + 1) |->
                  [e |-> IF re.greedy THEN i + cap - (k - 1) ELSE i + re.lo + (k - 1),
                   g |-> g]])

RECURSIVE MatchAt(_, _, _, _)
\* Every way re matches s starting at index i (1-based, i = next character
\* to read), as [e |-> index after the match, g |-> groups], in the order a
\* backtracking matcher tries them.  The head is what re.match reports.
MatchAt(re, s, i, g) ==
    CASE re.t = "lit" ->
            IF i + Len(re.s) - 1 <= Len(s) /\ SubSeq(s, i, i + Len(re.s) - 1) = re.s
            THEN <<[e |-> i + Len(re.s), g |-> g]>> ELSE <<>>
      [] re.t = "set" ->
            IF i <= Len(s) /\ s[i] \in re.cs THEN <<[e |-> i + 1, g |-> g]>> ELSE <<>>
      [] re.t = "nset" ->
            IF i <= Len(s) /\ s[i] \notin re.cs THEN <<[e |-> i + 1, g |-> g]>> ELSE <<>>
      [] re.t = "dot" ->
            IF i <= Len(s) /\ s[i] # NL THEN <<[e |-> i + 1, g |-> g]>> ELSE <<>>
      [] re.t = "cat" ->
            IF re.xs = <<>> THEN <<[e |-> i, g |-> g]>>
            ELSE LET first == MatchAt(Head(re.xs), s, i, g)
                     then(k) == MatchAt(Cat(Tail(re.xs)), s, first[k].e, first[k].g)
                 IN  Flat([k \in 1..Len(first) |-> then(k)])
      [] re.t = "alt" ->
            LET branch(k) == MatchAt(re.xs[k], s, i, g)
            IN  Flat([k \in 1..Len(re.xs) |-> branch(k)])
      [] re.t = "rep" /\ re.x.t \in {"set", "nset", "dot"} ->
            \* a repeated single character: the run of characters that match it
            RepChar(re, i, g, IF re.hi >= 0 /\ re.hi < Run(re.x, s, i)
                              THEN re.hi ELSE Run(re.x, s, i))
      [] re.t = "rep" /\ re.x.t \notin {"set", "nset", "dot"} ->
            LET once == IF re.hi = 0 THEN <<>> ELSE MatchAt(re.x, s, i, g)
                rest == Rep(re.x, IF re.lo > 0 THEN re.lo - 1 ELSE 0,
                            IF re.hi > 0 THEN re.hi - 1 ELSE re.hi, re.greedy)
                again(k) == IF once[k].e > i
                            THEN MatchAt(rest, s, once[k].e, once[k].g) ELSE <<>>
                more == Flat([k \in 1..Len(once) |-> again(k)])
                stop == IF re.lo = 0 THEN <<[e |-> i, g |-> g]>> ELSE <<>>
            IN  IF re.greedy THEN more \o stop ELSE stop \o more
      [] re.t = "grp" ->
            LET inner == MatchAt(re.x, s, i, g)
                close(k) == [e |-> inner[k].e,
                             g |-> [inner[k].g EXCEPT ![re.n] = <<i, inner[k].e>>]]
            IN  Tuple([k \in 1..Len(inner) |-> close(k)])

\* text of group n of a match m ('' when the group did not take part)
Group(s, m, n) == IF m.g[n] = <<0, 0>> THEN <<>> ELSE SubSeq(s, m.g[n][1], m.g[n][2] - 1)
\* match.group(0)
Group0(s, m) == SubSeq(s, m.st, m.e - 1)

\* re.match(re, s) with a pattern that ends in $: the whole of s must match
\* (no name the program tests ends in a newline)
FullMatch(re, s) ==
    LET all == MatchAt(re, s, 1, NoGroups)
    IN  \E k \in 1..Len(all) : all[k].e = Len(s) + 1

RECURSIVE FindFrom(_, _)
\* the scan of finditer from index pos on, at[i] being the matches that start
\* at index i: the leftmost start wins, and the scan goes on after its match
FindFrom(at, pos) ==
    LET later == {i \in pos..Len(at) : at[i] # <<>>}
    IN  IF later = {} THEN <<>>
        ELSE <<[st |-> Min(later), e |-> at[Min(later)][1].e, g |-> at[Min(later)][1].g]>>
               \o FindFrom(at, IF at[Min(later)][1].e > Min(later)
                               THEN at[Min(later)][1].e ELSE Min(later) + 1)

\* re.finditer(re, s): the non-overlapping matches, leftmost first, as
\* [st |-> start, e |-> index after the match, g |-> groups]
FindIter(re, s) ==
    FindFrom(Tuple([i \in 1..Len(s) |-> MatchAt(re, s, i, NoGroups)]), 1)

\* re.search(re, s) is not None
Search(re, s) == \E i \in 1..(Len(s) + 1) : MatchAt(re, s, i, NoGroups) # <<>>

----------------------------------------------------------------------------
(* CODE_QUALITY_CHECKS: the pattern tables *)

WordChar == Lower \cup Upper \cup Digit \cup Underscore     \* [A-Za-z0-9_]
LowerWord == Lower \cup Digit \cup Underscore               \* [a-z0-9_]
UpperWord == Upper \cup Digit \cup Underscore               \* [A-Z0-9_]
Ws0OneLine == Star(Cls(Space \ {NL}))                         \* a variant of \s* that stops at a newline
Ws0 == Star(Cls(Space))                                     \* \s*
Ws1 == Plus(Cls(Space))                                     \* \s+
Quote == {"'", "\""}

\* r"class\s+([A-Za-z0-9_]+)"
NamingClassPattern == Cat(<<Lit(<<"c","l","a","s","s">>), Ws1, Grp(1, Plus(Cls(WordChar)))>>)
\* r"def\s+([a-z0-9_]+)"
PyNamingFunctionPattern == Cat(<<Lit(<<"d","e","f">>), Ws1, Grp(1, Plus(Cls(LowerWord)))>>)
\* r"([A-Z0-9_]{2,})\s*="
PyNamingConstantPattern == Cat(<<Grp(1, Rep(Cls(UpperWord), 2, -1, TRUE)), Ws0, Lit(<<"=">>)>>)
\* r"([a-z0-9_]+)\s*="
PyNamingVariablePattern == Cat(<<Grp(1, Plus(Cls(LowerWord))), Ws0, Lit(<<"=">>)>>)
\* r"function\s+([a-z0-9_]+)|const\s+([a-z0-9_]+)\s*=\s*\("
JsNamingFunctionPattern ==
    Alt(<<Cat(<<Lit(<<"f","u","n","c","t","i","o","n">>), Ws1, Grp(1, Plus(Cls(LowerWord)))>>),
          Cat(<<Lit(<<"c","o","n","s","t">>), Ws1, Grp(2, Plus(Cls(LowerWord))), Ws0, Lit(<<"=">>), Ws0, Lit(<<"(">>)>>)>>)
\* r"const\s+([A-Z0-9_]{2,})\s*="
JsNamingConstantPattern ==
    Cat(<<Lit(<<"c","o","n","s","t">>), Ws1, Grp(1, Rep(Cls(UpperWord), 2, -1, TRUE)), Ws0, Lit(<<"=">>)>>)
\* r"(let|var|const)\s+([a-z0-9_]+)\s*="
JsNamingVariablePattern ==
    Cat(<<Grp(1, Alt(<<Lit(<<"l","e","t">>), Lit(<<"v","a","r">>), Lit(<<"c","o","n","s","t">>)>>)), Ws1,
          Grp(2, Plus(Cls(LowerWord))), Ws0, Lit(<<"=">>)>>)

\* CODE_QUALITY_CHECKS["naming_conventions"]["patterns"]: per file type, the
\* element types in the dict's order, each with its pattern and the number
\* of capturing groups in it
NamingPatterns(file_type) ==
    IF file_type = "python"
    THEN << [element_type |-> "class",    pattern |-> NamingClassPattern,      groups |-> 1],
            [element_type |-> "function", pattern |-> PyNamingFunctionPattern, groups |-> 1],
            [element_type |-> "constant", pattern |-> PyNamingConstantPattern, groups |-> 1],
            [element_type |-> "variable", pattern |-> PyNamingVariablePattern, groups |-> 1] >>
    ELSE << [element_type |-> "class",    pattern |-> NamingClassPattern,      groups |-> 1],
            [element_type |-> "function", pattern |-> JsNamingFunctionPattern, groups |-> 2],
            [element_type |-> "constant", pattern |-> JsNamingConstantPattern, groups |-> 1],
            [element_type |-> "variable", pattern |-> JsNamingVariablePattern, groups |-> 2] >>

\* CODE_QUALITY_CHECKS["naming_conventions"]["rules"]; each pattern is
\* anchored by ^ and $
NamingRules(element_type) ==
    CASE element_type = "class" ->
            [pattern |-> Cat(<<Cls(Upper), Star(Cls(Lower \cup Upper \cup Digit))>>),
             message |-> "Class names should use PascalCase"]
      [] element_type = "function" ->
            [pattern |-> Cat(<<Cls(Lower), Star(Cls(LowerWord))>>),
             message |-> "Function names should use snake_case or camelCase"]
      [] element_type = "constant" ->
            [pattern |-> Cat(<<Cls(Upper), Star(Cls(UpperWord))>>),
             message |-> "Constants should use UPPER_SNAKE_CASE"]
      [] element_type = "variable" ->
            [pattern |-> Cat(<<Cls(Lower), Star(Cls(LowerWord))>>),
             message |-> "Variable names should use snake_case or camelCase"]

\* CODE_QUALITY_CHECKS["common_issues"]["patterns"][issue_name]
CommonIssuePatterns(issue_name) ==
    CASE issue_name = "hardcoded_secrets" ->
            \* r"(password|secret|key|token|credential)s?\s*=\s*['\"][^'\"]+['\"]"
            [pattern |-> Cat(<<Grp(1, Alt(<<Lit(<<"p","a","s","s","w","o","r","d">>), Lit(<<"s","e","c","r","e","t">>), Lit(<<"k","e","y">>),
                                           Lit(<<"t","o","k","e","n">>), Lit(<<"c","r","e","d","e","n","t","i","a","l">>)>>)),
                               Opt(Lit(<<"s">>)), Ws0, Lit(<<"=">>), Ws0,
                               Cls(Quote), Plus(NCls(Quote)), Cls(Quote)>>),
             message |-> "Potential hardcoded secret detected",
             severity |-> "high"]
      [] issue_name = "debug_code" ->
            \* r"(console\.log|print|debugger|TODO|FIXME)"
            [pattern |-> Grp(1, Alt(<<Lit(<<"c","o","n","s","o","l","e",".","l","o","g">>), Lit(<<"p","r","i","n","t">>), Lit(<<"d","e","b","u","g","g","e","r">>),
                                      Lit(<<"T","O","D","O">>), Lit(<<"F","I","X","M","E">>)>>)),
             message |-> "Debug code or marker detected",
             severity |-> "medium"]
      [] issue_name = "empty_catch" ->
            \* r"catch\s*\([^)]*\)\s*{\s*}"
            [pattern |-> Cat(<<Lit(<<"c","a","t","c","h">>), Ws0, Lit(<<"(">>), Star(NCls({")"})), Lit(<<")">>),
                               Ws0, Lit(<<"{">>), Ws0, Lit(<<"}">>)>>),
             message |-> "Empty catch block detected",
             severity |-> "medium"]

\* the issue names in the order of the dict
CommonIssueNames == <<"hardcoded_secrets", "debug_code", "empty_catch">>

\* extract_functions: r'def\s+([a-zA-Z0-9_]+)\s*\((.*?)\):'
PyFunctionPattern ==
    Cat(<<Lit(<<"d","e","f">>), Ws1, Grp(1, Plus(Cls(WordChar))), Ws0, Lit(<<"(">>),
          Grp(2, LazyStar(Dot)), Lit(<<")",":">>)>>)

\* extract_functions: function_patterns, with the groups that hold the name
\* and the parameter string (group 1 and 2 for the first, 2 and 3 otherwise)
JsFunctionPatterns ==
    << \* r'function\s+([a-zA-Z0-9_]+)\s*\((.*?)\)'
       [pattern |-> Cat(<<Lit(<<"f","u","n","c","t","i","o","n">>), Ws1, Grp(1, Plus(Cls(WordChar))), Ws0,
                          Lit(<<"(">>), Grp(2, LazyStar(Dot)), Lit(<<")">>)>>),
        name_group |-> 1, params_group |-> 2],
       \* r'(const|let|var)\s+([a-zA-Z0-9_]+)\s*=\s*function\s*\((.*?)\)'
       [pattern |-> Cat(<<Grp(1, Alt(<<Lit(<<"c","o","n","s","t">>), Lit(<<"l","e","t">>), Lit(<<"v","a","r">>)>>)), Ws1,
                          Grp(2, Plus(Cls(WordChar))), Ws0, Lit(<<"=">>), Ws0,
                          Lit(<<"f","u","n","c","t","i","o","n">>), Ws0, Lit(<<"(">>), Grp(3, LazyStar(Dot)), Lit(<<")">>)>>),
        name_group |-> 2, params_group |-> 3],
       \* r'(const|let|var)\s+([a-zA-Z0-9_]+)\s*=\s*\((.*?)\)\s*=>'
       [pattern |-> Cat(<<Grp(1, Alt(<<Lit(<<"c","o","n","s","t">>), Lit(<<"l","e","t">>), Lit(<<"v","a","r">>)>>)), Ws1,
                          Grp(2, Plus(Cls(WordChar))), Ws0, Lit(<<"=">>), Ws0,
                          Lit(<<"(">>), Grp(3, LazyStar(Dot)), Lit(<<")">>), Ws0, Lit(<<"=",">">>)>>),
        name_group |-> 2, params_group |-> 3] >>

----------------------------------------------------------------------------
(* File types *)

\* os.path.splitext(path)[1]: from the last dot of the last path component,
\* unless that component has only leading dots before it
SplitExt(path) ==
    LET seps == {i \in 1..Len(path) : path[i] = "/"}
        dots == {i \in 1..Len(path) : path[i] = "."}
        sepIndex == IF seps = {} THEN 0 ELSE Max(seps)
        dotIndex == IF dots = {} THEN 0 ELSE Max(dots)
    IN  IF dotIndex > sepIndex
           /\ \E k \in (sepIndex + 1)..(dotIndex - 1) : path[k] # "."
        THEN SubSeq(path, dotIndex, Len(path))
        ELSE <<>>

\* ext = os.path.splitext(file_path)[1].lower()
Ext(file_path) == StrLower(SplitExt(file_path))

\* a variant of FileType that takes every other extension for Python
FileTypeLenient(file_path) ==
    IF Ext(file_path) \in {<<".","j","s">>, <<".","t","s">>} THEN "javascript" ELSE "python"

\* check_naming_conventions: the file type, "none" for None
FileType(file_path) ==
    IF Ext(file_path) = <<".","p","y">> THEN "python"
    ELSE IF Ext(file_path) \in {<<".","j","s">>, <<".","t","s">>} THEN "javascript"
    ELSE "none"

----------------------------------------------------------------------------
(* find_line_number *)

\* a variant of find_line_number that reports 0 for a text no line contains
find_line_number_or_zero(content, substring) ==
    LET lines == Split(content, NL)
        hits == {i \in 1..Len(lines) : Contains(lines[i], substring)}
    IN  IF hits = {} THEN 0 ELSE Min(hits)

\* a variant of find_line_number that reports the last line that contains
\* substring
find_line_number_last(content, substring) ==
    LET lines == Split(content, NL)
        hits == {i \in 1..Len(lines) : Contains(lines[i], substring)}
    IN  IF hits = {} THEN 1 ELSE Max(hits)

\* 1-based number of the first line that contains substring, 1 when none does
find_line_number(content, substring) ==
    LET lines == Split(content, NL)
        hits == {i \in 1..Len(lines) : Contains(lines[i], substring)}
    IN  IF hits = {} THEN 1 ELSE Min(hits)

----------------------------------------------------------------------------
(* extract_functions *)

\* [p.strip() for p in params_str.split(',') if p.strip()]
SplitParams(params_str) ==
    LET parts == Split(params_str, ",")
        stripped == Tuple([k \in 1..Len(parts) |-> Strip(parts[k])])
    IN  DropEmpty(stripped)

\* len(line) - len(line.lstrip())
Indent(line) == Len(line) - Len(LStrip(line))

\* a variant of PyFuncLines that takes the blank lines after a signature for
\* its body when nothing else follows
PyFuncLinesBlankBody(lines) ==
    LET nonblank == {i \in 1..Len(lines) : Strip(lines[i]) # <<>>}
    IN  IF nonblank = {} THEN lines
        ELSE LET i == Min(nonblank)
                 base_indent == Indent(lines[i])
                 stops == {j \in (i + 1)..Len(lines) :
                              Strip(lines[j]) # <<>> /\ Indent(lines[j]) <= base_indent}
                 last == IF stops = {} THEN Len(lines) ELSE Min(stops) - 1
             IN  SubSeq(lines, i, last)

\* a variant of PyFuncLines whose scan goes on over a line of the base
\* indentation (< for <=)
PyFuncLinesStrict(lines) ==
    LET nonblank == {i \in 1..Len(lines) : Strip(lines[i]) # <<>>}
    IN  IF nonblank = {} THEN <<>>
        ELSE LET i == Min(nonblank)
                 base_indent == Indent(lines[i])
                 stops == {j \in (i + 1)..Len(lines) :
                              Strip(lines[j]) # <<>> /\ Indent(lines[j]) < base_indent}
                 last == IF stops = {} THEN Len(lines) ELSE Min(stops) - 1
             IN  SubSeq(lines, i, last)

\* the body of a Python function: lines is content[start_pos:].split('\n')
PyFuncLines(lines) ==
    LET nonblank == {i \in 1..Len(lines) : Strip(lines[i]) # <<>>}
    IN  IF nonblank = {} THEN <<>>     \* first loop ends without a break; second loop is empty
        ELSE LET i == Min(nonblank)
                 base_indent == Indent(lines[i])
                 stops == {j \in (i + 1)..Len(lines) :
                              Strip(lines[j]) # <<>> /\ Indent(lines[j]) <= base_indent}
                 last == IF stops = {} THEN Len(lines) ELSE Min(stops) - 1
             IN  SubSeq(lines, i, last)

\* the body of a JavaScript function: lines is content[start_pos:].split('\n')
JsFuncLines(lines) ==
    LET opens == {i \in 1..Len(lines) : Contains(lines[i], <<"{">>)}
    IN  IF opens = {} THEN <<>>
        ELSE LET first == Min(opens)
                 delta(k) == CountChar(lines[k], "{") - CountChar(lines[k], "}")
                 \* brace_count after each of the lines first, first + 1, ...
                 counts[k \in 0..(Len(lines) - first + 1)] ==
                     IF k = 0 THEN <<>>
                     ELSE LET prev == counts[k - 1]
                          IN  Append(prev, (IF k = 1 THEN 0 ELSE prev[k - 1]) + delta(first + k - 1))
                 brace_count == counts[Len(lines) - first + 1]
                 \* the test brace_count <= 0 is made on the lines after the first only
                 stops == {k \in (first + 1)..Len(lines) : brace_count[k - first + 1] <= 0}
                 last == IF stops = {} THEN Len(lines) ELSE Min(stops)
             IN  SubSeq(lines, first, last)

\* the body lines of a function, from the text that follows its signature
FuncLines(js, lines) == IF js THEN JsFuncLines(lines) ELSE PyFuncLines(lines)

\* the descriptor of the function whose signature is match; match.e - 1 is
\* start_pos, the 0-based match.end()
Descriptor(content, match, p, js) ==
    [name |-> Group(content, match, p.name_group),
     parameters |-> SplitParams(Group(content, match, p.params_group)),
     start_line |-> CountChar(SubSeq(content, 1, match.e - 1), NL) + 1,
     lines |-> FuncLines(js, Split(SubSeq(content, match.e, Len(content)), NL))]

\* a variant of Descriptors that records a function only when a body was
\* found for it
DescriptorsWithBody(content, matches, p, js) ==
    Flat([k \in 1..Len(matches) |->
            IF Descriptor(content, matches[k], p, js).lines = <<>> THEN <<>>
            ELSE <<Descriptor(content, matches[k], p, js)>>])

\* one descriptor per match, in the order finditer gives them
Descriptors(content, matches, p, js) ==
    Tuple([k \in 1..Len(matches) |-> Descriptor(content, matches[k], p, js)])

\* the functions one pattern p finds in content
FunctionsOf(content, p, js) == Descriptors(content, FindIter(p.pattern, content), p, js)

\* the JavaScript family: the patterns in order, each over the whole content
JsFunctionsOf(content, patterns) ==
    Flat([k \in 1..Len(patterns) |-> FunctionsOf(content, patterns[k], TRUE)])

\* ext, the lower-cased extension, selects the family
FunctionsByExt(ext, content) ==
    IF ext = <<".","p","y">>
    THEN FunctionsOf(content, [pattern |-> PyFunctionPattern, name_group |-> 1,
                               params_group |-> 2], FALSE)
    ELSE IF ext \in {<<".","j","s">>, <<".","t","s">>}
    THEN JsFunctionsOf(content, JsFunctionPatterns)
    ELSE <<>>

extract_functions(file_path, content) == FunctionsByExt(Ext(file_path), content)

----------------------------------------------------------------------------
(* The three checks *)

\* re.findall(pattern, content) after the tuple flattening of lines 180-181:
\* with one group the group's text per match, with several the non-empty
\* groups of every match in group order
GroupsOf(content, matches, groups) ==
    IF groups = 1
    THEN Tuple([k \in 1..Len(matches) |-> Group(content, matches[k], 1)])
    ELSE DropEmpty(Flat([k \in 1..Len(matches) |->
                           Tuple([n \in 1..groups |-> Group(content, matches[k], n)])]))

FindAllNames(pattern, groups, content) ==
    GroupsOf(content, FindIter(pattern, content), groups)

\* lines 183-194: the finding for one name, none when the name satisfies the
\* rule of its element type
NamingIssue(file_path, content, element_type, rule, match) ==
    IF ~FullMatch(rule.pattern, match)
    THEN << [file |-> file_path,
             line |-> find_line_number(content, match),
             issue_type |-> "naming_convention",
             element_type |-> element_type,
             name |-> match,
             message |-> rule.message,
             severity |-> "medium"] >>
    ELSE <<>>

\* a variant of NamingIssuesOf that reports a failing name once, however
\* often it occurs
NamingIssuesOfDistinct(file_path, content, element_type, matches) ==
    Flat([k \in 1..Len(matches) |->
            IF \E j \in 1..(k - 1) : matches[j] = matches[k] THEN <<>>
            ELSE NamingIssue(file_path, content, element_type, NamingRules(element_type),
                             matches[k])])

\* the findings for the names one pattern extracts, in the order of matches
NamingIssuesOf(file_path, content, element_type, matches) ==
    Flat([k \in 1..Len(matches) |->
            NamingIssue(file_path, content, element_type, NamingRules(element_type),
                        matches[k])])

\* lines 174-194: the patterns of the file type in dict order
NamingIssues(file_path, content, patterns) ==
    Flat([p \in 1..Len(patterns) |->
            NamingIssuesOf(file_path, content, patterns[p].element_type,
                           FindAllNames(patterns[p].pattern, patterns[p].groups, content))])

NamingByType(file_type, file_path, content) ==
    IF file_type = "none" THEN <<>>
    ELSE NamingIssues(file_path, content, NamingPatterns(file_type))

check_naming_conventions(file_path, content) ==
    NamingByType(FileType(file_path), file_path, content)

\* a variant of FunctionIssues whose length test is off by one (>= for >)
FunctionIssuesAtLeast(file_path, func) ==
    (IF Len(func.lines) >= config.max_lines
     THEN << [file |-> file_path,
              line |-> func.start_line,
              issue_type |-> "code_complexity",
              complexity_type |-> "function_length",
              function |-> func.name,
              message |-> <<"Function is too long (> {max_lines} lines)", config.max_lines>>,
              severity |-> "medium"] >>
     ELSE <<>>)
    \o
    (IF Len(func.parameters) > config.max_params
     THEN << [file |-> file_path,
              line |-> func.start_line,
              issue_type |-> "code_complexity",
              complexity_type |-> "parameter_count",
              function |-> func.name,
              message |-> <<"Too many parameters (> {max_params})", config.max_params>>,
              severity |-> "medium"] >>
     ELSE <<>>)

\* a variant of FunctionIssues whose parameter test is off by one (>= for >)
FunctionIssuesParamsAtLeast(file_path, func) ==
    (IF Len(func.lines) > config.max_lines
     THEN << [file |-> file_path,
              line |-> func.start_line,
              issue_type |-> "code_complexity",
              complexity_type |-> "function_length",
              function |-> func.name,
              message |-> <<"Function is too long (> {max_lines} lines)", config.max_lines>>,
              severity |-> "medium"] >>
     ELSE <<>>)
    \o
    (IF Len(func.parameters) >= config.max_params
     THEN << [file |-> file_path,
              line |-> func.start_line,
              issue_type |-> "code_complexity",
              complexity_type |-> "parameter_count",
              function |-> func.name,
              message |-> <<"Too many parameters (> {max_params})", config.max_params>>,
              severity |-> "medium"] >>
     ELSE <<>>)

\* the levels of indentation the body of a function spans
NestingDepth(func) ==
    LET widths == {Indent(func.lines[k]) : k \in {j \in DOMAIN func.lines : Strip(func.lines[j]) # <<>>}}
    IN  IF widths = {} THEN 0 ELSE Max(widths) - Min(widths)

\* a variant of FunctionIssues that evaluates the nested_depth threshold too
FunctionIssuesWithDepth(file_path, func) ==
    (IF Len(func.lines) > config.max_lines
     THEN << [file |-> file_path,
              line |-> func.start_line,
              issue_type |-> "code_complexity",
              complexity_type |-> "function_length",
              function |-> func.name,
              message |-> <<"Function is too long (> {max_lines} lines)", config.max_lines>>,
              severity |-> "medium"] >>
     ELSE <<>>)
    \o
    (IF Len(func.parameters) > config.max_params
     THEN << [file |-> file_path,
              line |-> func.start_line,
              issue_type |-> "code_complexity",
              complexity_type |-> "parameter_count",
              function |-> func.name,
              message |-> <<"Too many parameters (> {max_params})", config.max_params>>,
              severity |-> "medium"] >>
     ELSE <<>>)
    \o
    (IF NestingDepth(func) > config.max_depth
     THEN << [file |-> file_path,
              line |-> func.start_line,
              issue_type |-> "code_complexity",
              complexity_type |-> "nested_depth",
              function |-> func.name,
              message |-> <<"Nesting level is too deep (> {max_depth} levels)", config.max_depth>>,
              severity |-> "medium"] >>
     ELSE <<>>)

\* lines 209-231: the findings for one function
FunctionIssues(file_path, func) ==
    (IF Len(func.lines) > config.max_lines
     THEN << [file |-> file_path,
              line |-> func.start_line,
              issue_type |-> "code_complexity",
              complexity_type |-> "function_length",
              function |-> func.name,
              message |-> <<"Function is too long (> {max_lines} lines)", config.max_lines>>,
              severity |-> "medium"] >>
     ELSE <<>>)
    \o
    (IF Len(func.parameters) > config.max_params
     THEN << [file |-> file_path,
              line |-> func.start_line,
              issue_type |-> "code_complexity",
              complexity_type |-> "parameter_count",
              function |-> func.name,
              message |-> <<"Too many parameters (> {max_params})", config.max_params>>,
              severity |-> "medium"] >>
     ELSE <<>>)

ComplexityIssues(file_path, functions) ==
    Flat([k \in 1..Len(functions) |-> FunctionIssues(file_path, functions[k])])

check_code_complexity(file_path, content) ==
    ComplexityIssues(file_path, extract_functions(file_path, content))

\* a variant of CommonIssue that grades every pattern finding as low
CommonIssueLow(file_path, content, issue_name, issue_config, text) ==
    [file |-> file_path,
     line |-> find_line_number(content, text),
     issue_type |-> "common_issue",
     issue_name |-> issue_name,
     match |-> text,
     message |-> issue_config.message,
     severity |-> "low"]

\* lines 243-251: the finding for one match, text being match.group(0)
CommonIssue(file_path, content, issue_name, issue_config, text) ==
    [file |-> file_path,
     line |-> find_line_number(content, text),
     issue_type |-> "common_issue",
     issue_name |-> issue_name,
     match |-> text,
     message |-> issue_config.message,
     severity |-> issue_config.severity]

\* the findings for the matches of one pattern, in the order of finditer
CommonIssuesOf(file_path, content, issue_name, issue_config, matches) ==
    Tuple([k \in 1..Len(matches) |->
             CommonIssue(file_path, content, issue_name, issue_config,
                         Group0(content, matches[k]))])

\* a variant of CommonIssuesFor that reports a pattern once per file, as
\* re.search would: the first match only
CommonIssuesForFirst(file_path, content, issue_name, issue_config) ==
    CommonIssuesOf(file_path, content, issue_name, issue_config,
                   IF FindIter(issue_config.pattern, content) = <<>> THEN <<>>
                   ELSE <<FindIter(issue_config.pattern, content)[1]>>)

CommonIssuesFor(file_path, content, issue_name, issue_config) ==
    CommonIssuesOf(file_path, content, issue_name, issue_config,
                   FindIter(issue_config.pattern, content))

check_common_issues(file_path, content) ==
    Flat([p \in 1..Len(config.issue_names) |->
            CommonIssuesFor(file_path, content, config.issue_names[p],
                            CommonIssuePatterns(config.issue_names[p]))])

----------------------------------------------------------------------------
(* Cursor rules and match_file_to_rules *)

\* A file pattern of a rule file, as re.search compiles it: either a regular
\* expression, or text the re module rejects (a glob such as *.py raises
\* re.error "nothing to repeat")
PatPy == [compiles |-> TRUE, re |-> Lit(<<".","p","y">>)]        \* \.py
PatJs == [compiles |-> TRUE, re |-> Lit(<<".","j","s">>)]        \* \.js
PatGlob == [compiles |-> FALSE, re |-> Lit(<<"*",".","p","y">>)]    \* *.py

\* re.search(pattern, file_path): "raise", "match" or "none"
ReSearch(pattern, file_path) ==
    IF ~pattern.compiles THEN "raise"
    ELSE IF Search(pattern.re, file_path) THEN "match" ELSE "none"

\* the inner loop of match_file_to_rules over one rule's patterns: the first
\* pattern that raises or matches decides
RuleOutcome(rule, file_path) ==
    LET decisive == {k \in 1..Len(rule.file_patterns) :
                        ReSearch(rule.file_patterns[k], file_path) # "none"}
    IN  IF decisive = {} THEN "none"
        ELSE ReSearch(rule.file_patterns[Min(decisive)], file_path)

\* match_file_to_rules: [raised |-> an exception left the function,
\* rules |-> the applicable rule names]; rules are tried in dict order and the
\* first exception ends the scan
match_file_to_rules(file_path, rules) ==
    LET raising == {r \in 1..Len(rules) : RuleOutcome(rules[r], file_path) = "raise"}
        one(r) == IF RuleOutcome(rules[r], file_path) = "match"
                  THEN <<rules[r].name>> ELSE <<>>
    IN  IF raising # {}
        THEN [raised |-> TRUE, rules |-> <<>>]
        ELSE [raised |-> FALSE, rules |-> Flat([k \in 1..Len(rules) |-> one(k)])]

----------------------------------------------------------------------------
(* generate_pr_review_report *)

Severities == <<"critical", "high", "medium", "low">>

\* issues_by_severity[sev]: the issues of one severity, in order
BySeverity(issues, sev) ==
    Flat([k \in 1..Len(issues) |-> IF issues[k].severity = sev THEN <<issues[k]>> ELSE <<>>])

\* a variant of ByType whose group holds its findings reclassified as high
ByTypeRaised(issues, type) ==
    Flat([k \in 1..Len(issues) |->
            IF issues[k].issue_type = type
            THEN <<[issues[k] EXCEPT !.severity = "high"]>> ELSE <<>>])

\* issues_by_type[type]: the issues of one type, in order
ByType(issues, type) ==
    Flat([k \in 1..Len(issues) |-> IF issues[k].issue_type = type THEN <<issues[k]>> ELSE <<>>])

\* the keys of issues_by_type, a defaultdict(list) filled by one pass over
\* issues: the issue types in order of first appearance
TypesInOrder(issues) ==
    Flat([k \in 1..Len(issues) |->
            IF \E j \in 1..(k - 1) : issues[j].issue_type = issues[k].issue_type
            THEN <<>> ELSE <<issues[k].issue_type>>])

\* The report, by its parts: empty says it is the one-line "No issues
\* found" text; summary is the "Issues Summary" lines, by_type the "Detailed
\* Issues" sections with their issues, rules the "Applicable Cursor Rules"
\* sections, recommendations the lines of "Recommendations".
generate_pr_review_report(issues, applicable_rules) ==
    IF issues = <<>> /\ applicable_rules = <<>>
    THEN [empty |-> TRUE, summary |-> <<>>, by_type |-> <<>>, rules |-> <<>>,
          recommendations |-> <<>>]
    ELSE
      LET summary_line(k) ==
              IF BySeverity(issues, Severities[k]) # <<>>
              THEN << [severity |-> Severities[k],
                       count |-> Len(BySeverity(issues, Severities[k]))] >>
              ELSE <<>>
          types == TypesInOrder(issues)
          section(k) == [issue_type |-> types[k], issues |-> ByType(issues, types[k])]
          Blocking == \E k \in 1..Len(issues) : issues[k].severity \in {"critical", "high"}
          Naming == \E k \in 1..Len(issues) : issues[k].issue_type = "naming_convention"
          Complexity == \E k \in 1..Len(issues) : issues[k].issue_type = "code_complexity"
          Debug == \E k \in 1..Len(issues) :
                      "issue_name" \in DOMAIN issues[k] /\ issues[k].issue_name = "debug_code"
          Secret == \E k \in 1..Len(issues) :
                      "issue_name" \in DOMAIN issues[k] /\ issues[k].issue_name = "hardcoded_secrets"
      IN  [empty |-> FALSE,
           summary |-> IF issues = <<>> THEN <<>>
                       ELSE Flat([k \in 1..Len(Severities) |-> summary_line(k)]),
           by_type |-> Tuple([k \in 1..Len(types) |-> section(k)]),
           rules |-> applicable_rules,
           recommendations |->
               (IF Blocking THEN <<"Address high severity issues before merging">> ELSE <<>>)
               \o (IF Naming THEN <<"Review naming conventions">> ELSE <<>>)
               \o (IF Complexity THEN <<"Consider refactoring complex functions">> ELSE <<>>)
               \o (IF Debug THEN <<"Remove debug code">> ELSE <<>>)
               \o (IF Secret THEN <<"Remove hardcoded secrets">> ELSE <<>>)]

----------------------------------------------------------------------------
(* get_changed_files *)

\* a variant of get_changed_files in which a path that cannot be read ends
\* the reading of the listing, as one try block around the loop would
get_changed_files_aborting(ls) ==
    IF ~ls.git_ok \/ (\E k \in 1..Len(ls.files) : ~(ls.files[k].exists /\ ls.files[k].readable))
    THEN <<>>
    ELSE Tuple([k \in 1..Len(ls.files) |->
                  [path |-> ls.files[k].path, content |-> ls.files[k].content]])

\* files_with_content as the sequence of [path, content] in insertion order:
\* the listed paths that exist and can be read; empty when git fails
get_changed_files(ls) ==
    IF ~ls.git_ok THEN <<>>
    ELSE LET one(k) == IF ls.files[k].exists /\ ls.files[k].readable
                       THEN << [path |-> ls.files[k].path, content |-> ls.files[k].content] >>
                       ELSE <<>>
         IN  Flat([k \in 1..Len(ls.files) |-> one(k)])

----------------------------------------------------------------------------
(* main *)

NoReport == [empty |-> TRUE, summary |-> <<>>, by_type |-> <<>>, rules |-> <<>>,
             recommendations |-> <<"none">>]

\* two findings are equal in every field (findings of different issue types
\* have different fields)
SameFinding(a, b) == a.issue_type = b.issue_type /\ a = b

\* issues without the findings equal to an earlier one
DistinctIssues(issues) ==
    Flat([k \in 1..Len(issues) |->
            IF \E j \in 1..(k - 1) : SameFinding(issues[j], issues[k])
            THEN <<>> ELSE <<issues[k]>>])

\* a variant of FileIssues that keeps one of several identical findings, as
\* a set of findings would
FileIssuesDistinct(file_path, content) ==
    DistinctIssues(check_naming_conventions(file_path, content)
                       \o check_code_complexity(file_path, content)
                       \o check_common_issues(file_path, content))

\* what one turn of main's loop adds to all_issues (lines 488-490)
FileIssues(file_path, content) ==
    check_naming_conventions(file_path, content)
        \o check_code_complexity(file_path, content)
        \o check_common_issues(file_path, content)

\* applicable_rule_details after the names are stored in it: a dict keeps
\* the position of a key it already holds
AddRules(details, names) ==
    LET one(k) == IF (\E j \in 1..Len(details) : details[j] = names[k])
                     \/ (\E j \in 1..(k - 1) : names[j] = names[k])
                  THEN <<>> ELSE <<names[k]>>
    IN  details \o Flat([k \in 1..Len(names) |-> one(k)])

\* a variant of GetChangedFiles that goes on to the loop and the report with
\* an empty file set too
GetChangedFilesThenReport ==
    /\ pc = "start"
    /\ files_with_content' = get_changed_files(listing)
    /\ pc' = "analyze"
    /\ UNCHANGED <<config, cursor_rules, listing, idx, all_issues,
                   applicable_rule_details, report, exit_code>>

\* lines 465-473: the files are fetched; with none, main returns 0 at once
GetChangedFiles ==
    /\ pc = "start"
    /\ files_with_content' = get_changed_files(listing)
    /\ IF files_with_content' = <<>>
       THEN pc' = "done" /\ exit_code' = 0
       ELSE pc' = "analyze" /\ UNCHANGED exit_code
    /\ UNCHANGED <<config, cursor_rules, listing, idx, all_issues,
                   applicable_rule_details, report>>

\* a variant of AnalyzeFile that puts a file's findings before or after the
\* ones gathered so far, as an unordered collection would
AnalyzeFileUnordered ==
    /\ pc = "analyze"
    /\ idx < Len(files_with_content)
    /\ LET file == files_with_content[idx + 1]
           applicable_rules == match_file_to_rules(file.path, cursor_rules)
       IN  IF applicable_rules.raised
           THEN /\ pc' = "crashed"
                /\ exit_code' = 1
                /\ UNCHANGED <<idx, all_issues, applicable_rule_details>>
           ELSE /\ applicable_rule_details' =
                        AddRules(applicable_rule_details, applicable_rules.rules)
                /\ \/ all_issues' = all_issues \o FileIssues(file.path, file.content)
                   \/ all_issues' = FileIssues(file.path, file.content) \o all_issues
                /\ idx' = idx + 1
                /\ UNCHANGED <<pc, exit_code>>
    /\ UNCHANGED <<config, cursor_rules, listing, files_with_content, report>>

\* a variant of AnalyzeFile that reads a file after the files before it, as a
\* buffer shared by the files would
AnalyzeFileCarrying ==
    /\ pc = "analyze"
    /\ idx < Len(files_with_content)
    /\ LET file == files_with_content[idx + 1]
           applicable_rules == match_file_to_rules(file.path, cursor_rules)
       IN  IF applicable_rules.raised
           THEN /\ pc' = "crashed"
                /\ exit_code' = 1
                /\ UNCHANGED <<idx, all_issues, applicable_rule_details>>
           ELSE /\ applicable_rule_details' =
                        AddRules(applicable_rule_details, applicable_rules.rules)
                /\ all_issues' = all_issues \o
                      FileIssues(file.path,
                                 Flat([k \in 1..(idx + 1) |->
                                         files_with_content[k].content \o <<NL>>]))
                /\ idx' = idx + 1
                /\ UNCHANGED <<pc, exit_code>>
    /\ UNCHANGED <<config, cursor_rules, listing, files_with_content, report>>

\* lines 479-490: one turn of the loop.  An exception of match_file_to_rules
\* is not caught anywhere: it ends main (the interpreter exits with status 1)
AnalyzeFile ==
    /\ pc = "analyze"
    /\ idx < Len(files_with_content)
    /\ LET file == files_with_content[idx + 1]
           applicable_rules == match_file_to_rules(file.path, cursor_rules)
       IN  IF applicable_rules.raised
           THEN /\ pc' = "crashed"
                /\ exit_code' = 1
                /\ UNCHANGED <<idx, all_issues, applicable_rule_details>>
           ELSE /\ applicable_rule_details' =
                        AddRules(applicable_rule_details, applicable_rules.rules)
                /\ all_issues' = all_issues \o FileIssues(file.path, file.content)
                /\ idx' = idx + 1
                /\ UNCHANGED <<pc, exit_code>>
    /\ UNCHANGED <<config, cursor_rules, listing, files_with_content, report>>

\* line 493
GenerateReport ==
    /\ pc = "analyze"
    /\ idx = Len(files_with_content)
    /\ report' = generate_pr_review_report(all_issues, applicable_rule_details)
    /\ pc' = "output"
    /\ UNCHANGED <<config, cursor_rules, listing, files_with_content, idx,
                   all_issues, applicable_rule_details, exit_code>>

\* a variant of ExitStatus that fails the run on critical and high findings
\* only
ExitStatusBlocking(issues) ==
    IF \E k \in 1..Len(issues) : issues[k].severity \in {"critical", "high"} THEN 1 ELSE 0

\* line 506: return 1 if all_issues else 0
ExitStatus(issues) == IF issues # <<>> THEN 1 ELSE 0

\* lines 495-506: the report is written and main returns
Return ==
    /\ pc = "output"
    /\ exit_code' = ExitStatus(all_issues)
    /\ pc' = "done"
    /\ UNCHANGED <<config, cursor_rules, listing, files_with_content, idx,
                   all_issues, applicable_rule_details, report>>

----------------------------------------------------------------------------
(* The inputs of a run *)

\* bounds of the input space
MaxGenLines == 2        \* lines of a generated content
MaxFiles == 2           \* files of a listing drawn from the pool
SmallMaxLines == 1      \* max_lines of the overridden configuration
SmallMaxParams == 1     \* max_params of the overridden configuration

\* CODE_QUALITY_CHECKS as the module defines it: the thresholds of
\* code_complexity and the names of the common_issues patterns
DefaultConfig == [max_lines |-> 50, max_depth |-> 3, max_params |-> 5,
                  issue_names |-> CommonIssueNames]
\* CODE_QUALITY_CHECKS after a caller has lowered the thresholds
SmallConfig == [DefaultConfig EXCEPT !.max_lines = SmallMaxLines,
                                     !.max_params = SmallMaxParams]
\* configurations section 7 of the specification calls invalid
InvalidConfigs == { [DefaultConfig EXCEPT !.max_lines = 0],
                    [DefaultConfig EXCEPT !.max_params = 0],
                    [DefaultConfig EXCEPT !.max_lines = -1],
                    [DefaultConfig EXCEPT !.issue_names = <<>>] }
ConfigValid(c) == c.max_lines > 0 /\ c.max_params > 0 /\ c.issue_names # <<>>

\* s[1] + sep + s[2] + ... (sep.join(s))
Join(s, sep) ==
    LET one(k) == IF k = 1 THEN s[k] ELSE sep \o s[k]
    IN  Flat([k \in 1..Len(s) |-> one(k)])

\* the sequences over S of length lo..hi
SeqsOf(S, lo, hi) == UNION {[1..k -> S] : k \in lo..hi}

PathPy == <<"a",".","p","y">>
PathJs == <<"b",".","j","s">>
PathTxt == <<"c",".","t","x","t">>
GenPaths == {PathPy, PathJs, PathTxt}

LineDef == <<"d","e","f"," ","f","(","a",",","b",")",":">>
LineStmt == <<" ","x">>
LineVar == <<" "," ","v","a","r"," ","_","y","=","1">>
LineBlank == <<>>
LineFunction == <<"f","u","n","c","t","i","o","n"," ","g","(","a",")","{">>
LineClose == <<"}">>
LineArrow == <<"c","o","n","s","t"," ","h","=","(",")","=",">","{","}">>
LineSecret == <<"k","e","y","=","\"","v","\""," ","T","O","D","O">>
LineVocab == {LineDef, LineStmt, LineVar, LineBlank, LineFunction, LineClose,
              LineArrow, LineSecret}

\* every text of 1..MaxGenLines lines of the vocabulary
GenContents == {Join(ls, <<NL>>) : ls \in SeqsOf(LineVocab, 1, MaxGenLines)}

\* n copies of line, each ended by a newline
RECURSIVE Repeat(_, _)
Repeat(line, n) == IF n = 0 THEN <<>> ELSE line \o <<NL>> \o Repeat(line, n - 1)

\* the scenarios of section 8 of the specification and their neighbours
ApiKeyContent == <<"a","p","i","K","e","y"," ","="," ","\"","a","b","c","d","1","2","3","4","\"">>
ApiKeySnakeContent == <<"a","p","i","_","k","e","y"," ","="," ","\"","a","b","c","d","1","2","3","4","\"">>
\* a Python function of 60 statements at one indentation
Py60FlatContent == <<"d","e","f"," ","b","i","g","(",")",":">> \o <<NL>> \o Repeat(<<" ","x">>, 60)
\* a Python function whose body is an if statement with 59 statements under it
Py60NestedContent == <<"d","e","f"," ","b","i","g","(",")",":">> \o <<NL>> \o <<" ","i","f"," ","x",":">> \o <<NL>> \o Repeat(<<" "," ","y">>, 59)
\* the same with 49 statements under the if: a body of exactly 50 lines (the
\* text does not end in a newline, which would count as one more body line)
Py50NestedContent == <<"d","e","f"," ","b","i","g","(",")",":">> \o <<NL>> \o <<" ","i","f"," ","x",":">> \o <<NL>> \o Repeat(<<" "," ","y">>, 48) \o <<" "," ","y">>
\* and with 50 statements under the if: a body of exactly 51 lines
Py51NestedContent == <<"d","e","f"," ","b","i","g","(",")",":">> \o <<NL>> \o <<" ","i","f"," ","x",":">> \o <<NL>> \o Repeat(<<" "," ","y">>, 49) \o <<" "," ","y">>
\* a function of five parameters and one of six
PyParamsContent == Join(<< <<"d","e","f"," ","p","(","a",",","b",",","c",",","d",",","e",")",":">>, LineStmt, <<"d","e","f"," ","q","(","a",",","b",",","c",",","d",",","e",","," ","f",")",":">>, LineStmt >>, <<NL>>)
\* the identifiers of the naming scenario
MyUnderscoreValue == <<"M","y","_","V","a","l","u","e">>
MyCamelValue == <<"m","y","V","a","l","u","e">>
\* each declared as a Python variable, a Python function, a JavaScript
\* variable and a JavaScript function
PyVarContent(name) == name \o <<" ","="," ","1">>
PyDefContent(name) == <<"d","e","f"," ">> \o name \o <<"(",")",":">> \o <<NL>> \o LineStmt
JsVarContent(name) == <<"v","a","r"," ">> \o name \o <<" ","="," ","1">>
JsFunctionContent(name) == <<"f","u","n","c","t","i","o","n"," ">> \o name \o <<"(",")","{","}">>
\* two debug markers in JavaScript, in Python and in plain text
JsDebugContent == <<"c","o","n","s","o","l","e",".","l","o","g","(","1",")",";"," ","/","/"," ","T","O","D","O">>
PyDebugContent == <<"p","r","i","n","t","(","x",")"," ","#"," ","F","I","X","M","E">>
TxtDebugContent == <<"d","e","b","u","g","g","e","r"," ","T","O","D","O">>
\* catch blocks: empty over three lines, empty on one line, and not empty
JsCatchLinesContent == <<"t","r","y","{","}","c","a","t","c","h"," ","(","e",")"," ","{",NL," ",NL,"}">>
JsCatchTightContent == <<"t","r","y","{","}","c","a","t","c","h","(","e",")","{","}">>
JsCatchBodyContent == <<"t","r","y","{","}","c","a","t","c","h","(","e",")","{","x","}">>
\* a Python body with a blank line in it, ended by a line of its own indentation
PyBlankLineContent == <<"d","e","f"," ","f","(",")",":",NL," "," ","x",NL,NL," "," "," ","y",NL," "," ","z">>
\* parameters with a default value that holds a comma, and an empty
\* parameter list
PyNestedCommaContent == <<"d","e","f"," ","f","(","a","=","(","1",",","2",")",","," ","b",")",":",NL," ","x">>
JsNestedCommaContent == <<"f","u","n","c","t","i","o","n"," ","g","(","a","=","[","1",",","2","]",")","{",NL,"}">>
PyBlankParamsContent == <<"d","e","f"," ","f","("," ",")",":",NL," ","x">>
\* a JavaScript signature that no opening brace follows
JsNoBraceContent == <<"f","u","n","c","t","i","o","n"," ","g","(","a",")",NL,"x">>
\* a name declared on two lines and a catch block over two lines between them,
\* with a debug marker on the last line
JsLinesContent == <<"x",NL,"v","a","r"," ","_","y","=","1",NL,"c","a","t","c","h","(","e",")","{",NL,"}",NL,"v","a","r"," ","_","y","=","2"," ","T","O","D","O">>
\* a function of two parameters whose body is nested four levels deep
PyDeepContent == <<"d","e","f"," ","f","(","a",",","b",")",":",NL," ","i","f"," ","a",":",NL," "," ","i","f"," ","b",":",NL," "," "," ","i","f"," ","c",":",NL," "," "," "," ","i","f"," ","d",":",NL," "," "," "," "," ","x">>
\* a function signature, an assignment and two pattern matches
MixedTextContent == Join(<<LineDef, LineVar, LineSecret>>, <<NL>>)
\* an arrow function before a named function
JsMixedContent == <<"c","o","n","s","t"," ","a"," ","="," ","(",")"," ","=",">"," ","{","}">> \o <<NL>> \o <<"f","u","n","c","t","i","o","n"," ","b","(",")"," ","{","}">>

LibraryFiles ==
    { [path |-> PathPy,  content |-> ApiKeyContent],
      [path |-> PathTxt, content |-> ApiKeyContent],
      [path |-> PathTxt, content |-> ApiKeySnakeContent],
      [path |-> PathTxt, content |-> MixedTextContent],
      [path |-> PathPy,  content |-> Py60FlatContent],
      [path |-> PathPy,  content |-> Py60NestedContent],
      [path |-> PathPy,  content |-> Py50NestedContent],
      [path |-> PathPy,  content |-> Py51NestedContent],
      [path |-> PathPy,  content |-> PyParamsContent],
      [path |-> <<"E",".","P","Y">>,  content |-> Py60NestedContent],
      [path |-> PathPy,  content |-> PyVarContent(MyUnderscoreValue)],
      [path |-> PathPy,  content |-> PyDefContent(MyUnderscoreValue)],
      [path |-> PathJs,  content |-> JsVarContent(MyUnderscoreValue)],
      [path |-> PathJs,  content |-> JsFunctionContent(MyUnderscoreValue)],
      [path |-> PathPy,  content |-> PyVarContent(MyCamelValue)],
      [path |-> PathPy,  content |-> PyDefContent(MyCamelValue)],
      [path |-> PathJs,  content |-> JsVarContent(MyCamelValue)],
      [path |-> PathJs,  content |-> JsFunctionContent(MyCamelValue)],
      [path |-> PathJs,  content |-> JsDebugContent],
      [path |-> PathPy,  content |-> PyDebugContent],
      [path |-> PathTxt, content |-> TxtDebugContent],
      [path |-> PathJs,  content |-> JsCatchLinesContent],
      [path |-> PathJs,  content |-> JsCatchTightContent],
      [path |-> PathJs,  content |-> JsCatchBodyContent],
      [path |-> PathTxt, content |-> JsCatchLinesContent],
      [path |-> PathPy,  content |-> PyBlankLineContent],
      [path |-> PathPy,  content |-> PyNestedCommaContent],
      [path |-> PathJs,  content |-> JsNestedCommaContent],
      [path |-> PathPy,  content |-> PyBlankParamsContent],
      [path |-> PathJs,  content |-> JsNoBraceContent],
      [path |-> PathJs,  content |-> JsLinesContent],
      [path |-> PathJs,  content |-> JsMixedContent],
      [path |-> <<"d",".","t","s">>,  content |-> JsMixedContent] }

\* what git diff lists: the path, whether it is on disk, whether open/read
\* succeeds, and the content
Listed(path, content) == [path |-> path, exists |-> TRUE, readable |-> TRUE, content |-> content]

PoolFiles ==
    { Listed(PathPy,  Join(<<LineDef, LineStmt, LineVar>>, <<NL>>)),
      Listed(PathJs,  Join(<<LineFunction, LineBlank, LineClose>>, <<NL>>)),
      Listed(PathTxt, LineSecret),
      Listed(<<"d",".","p","y">>,  LineSecret),
      [path |-> <<"g","o","n","e",".","p","y">>, exists |-> FALSE, readable |-> FALSE, content |-> <<>>],
      [path |-> <<"l","o","c","k","e","d",".","j","s">>, exists |-> TRUE, readable |-> FALSE, content |-> <<>>] }

\* listings of up to MaxFiles pool files; git lists a path once
PoolListings ==
    {fs \in SeqsOf(PoolFiles, 0, MaxFiles) :
        \A i, j \in DOMAIN fs : i # j => fs[i].path # fs[j].path}

RuleSets ==
    { <<>>,
      << [name |-> "python-style", file_patterns |-> <<PatPy>>] >>,
      << [name |-> "globbed", file_patterns |-> <<PatGlob>>] >>,
      << [name |-> "scripts", file_patterns |-> <<PatJs, PatGlob>>],
         [name |-> "python-style", file_patterns |-> <<PatJs, PatPy>>] >> }

Inputs ==
    \* one generated file, under the module's and the lowered thresholds
    { [listing |-> [git_ok |-> TRUE, files |-> <<Listed(p, c)>>], rules |-> <<>>, config |-> cfg] :
        p \in GenPaths, c \in GenContents, cfg \in {DefaultConfig, SmallConfig} }
    \cup
    \* one scenario file
    { [listing |-> [git_ok |-> TRUE, files |-> <<Listed(f.path, f.content)>>], rules |-> <<>>,
       config |-> DefaultConfig] : f \in LibraryFiles }
    \cup
    \* several files, with rule files of every kind
    { [listing |-> [git_ok |-> TRUE, files |-> fs], rules |-> rs, config |-> DefaultConfig] :
        fs \in PoolListings, rs \in RuleSets }
    \cup
    \* several files, with configurations of every kind
    { [listing |-> [git_ok |-> TRUE, files |-> fs], rules |-> <<>>, config |-> cfg] :
        fs \in PoolListings, cfg \in {SmallConfig} \cup InvalidConfigs }
    \cup
    \* the deeply nested function, under the module's and the lowered thresholds
    { [listing |-> [git_ok |-> TRUE, files |-> <<Listed(PathPy, PyDeepContent)>>], rules |-> <<>>,
       config |-> cfg] : cfg \in {DefaultConfig, SmallConfig} }
    \cup
    \* the two files at the length threshold together
    { [listing |-> [git_ok |-> TRUE,
                    files |-> <<Listed(PathPy, Py50NestedContent),
                                Listed(<<"d",".","p","y">>, Py51NestedContent)>>],
       rules |-> <<>>, config |-> DefaultConfig] }
    \cup
    \* git diff fails
    { [listing |-> [git_ok |-> FALSE, files |-> <<>>], rules |-> <<>>, config |-> DefaultConfig] }

Init ==
    \E inp \in Inputs :
        /\ config = inp.config
        /\ cursor_rules = inp.rules
        /\ listing = inp.listing
        /\ files_with_content = <<>>
        /\ pc = "start"
        /\ idx = 0
        /\ all_issues = <<>>
        /\ applicable_rule_details = <<>>
        /\ report = NoReport
        /\ exit_code = -1

Next == GetChangedFiles \/ AnalyzeFile \/ GenerateReport \/ Return

Spec == Init /\ [][Next]_vars

----------------------------------------------------------------------------
(* Properties *)

\* the files main has analysed so far
Analysed == {files_with_content[k] : k \in 1..idx}

\* the findings all_issues holds for one file, in order
FindingsOf(path) ==
    Flat([k \in 1..Len(all_issues) |->
            IF all_issues[k].file = path THEN <<all_issues[k]>> ELSE <<>>])

\* the function_length findings among a file's findings
LengthFindings(path) ==
    Flat([k \in 1..Len(all_issues) |->
            IF /\ all_issues[k].file = path
               /\ all_issues[k].issue_type = "code_complexity"
               /\ all_issues[k].complexity_type = "function_length"
            THEN <<all_issues[k]>> ELSE <<>>])

HasBlocking(issues) ==
    \E k \in 1..Len(issues) : issues[k].severity \in {"critical", "high"}

UnknownExt(path) == Ext(path) \notin {<<".","p","y">>, <<".","j","s">>, <<".","t","s">>}

\* C1: once a file whose content contains apiKey = "abcd1234" has been
\* analysed with the hardcoded_secrets pattern configured, all_issues holds
\* exactly one common_issue finding for that text, of severity high.
C1_ApiKeyOneHighFinding ==
    \A f \in Analysed :
        Contains(f.content, ApiKeyContent)
            /\ (\E p \in DOMAIN config.issue_names : config.issue_names[p] = "hardcoded_secrets")
        => LET found == Flat([k \in 1..Len(all_issues) |->
                                IF /\ all_issues[k].file = f.path
                                   /\ all_issues[k].issue_type = "common_issue"
                                   /\ Contains(ApiKeyContent, all_issues[k].match)
                                THEN <<all_issues[k]>> ELSE <<>>])
           IN  Len(found) = 1 /\ found[1].severity = "high"

\* C2: once a .py file holding a function whose body spans 60 lines has been
\* analysed with max_lines = 50, all_issues holds exactly one function_length
\* finding for the file, and it names that function.
C2_SixtyLineFunctionFlagged ==
    \A f \in Analysed :
        f.content \in {Py60FlatContent, Py60NestedContent}
            /\ Ext(f.path) = <<".","p","y">> /\ config.max_lines = 50
        => /\ Len(LengthFindings(f.path)) = 1
           /\ LengthFindings(f.path)[1].function = <<"b","i","g">>

C4_FileFailureContained ==
    pc \in {"done", "crashed"} /\ files_with_content # <<>>
    => idx = Len(files_with_content) /\ report # NoReport

\* C5: under an invalid configuration (a threshold that is not positive, an
\* empty pattern table) no file is analysed and no finding is produced.
C5_InvalidConfigAborts ==
    ~ConfigValid(config) => idx = 0 /\ all_issues = <<>> /\ report = NoReport

\* C6: for an analysed file whose extension is none of .py, .js, .ts every
\* finding is a common_issue finding, extract_functions gives the empty
\* sequence, and the findings are the matches of the configured patterns in
\* the file, one finding per match.
C6_UnknownExtension ==
    \A f \in Analysed :
        UnknownExt(f.path)
        => /\ \A k \in DOMAIN FindingsOf(f.path) :
                  FindingsOf(f.path)[k].issue_type = "common_issue"
           /\ extract_functions(f.path, f.content) = <<>>
           /\ Tuple([k \in DOMAIN FindingsOf(f.path) |-> FindingsOf(f.path)[k].match])
                = Flat([p \in DOMAIN config.issue_names |->
                          LET m == FindIter(CommonIssuePatterns(config.issue_names[p]).pattern,
                                            f.content)
                          IN  Tuple([k \in DOMAIN m |-> Group0(f.content, m[k])])])

\* a file with an unknown extension that holds a function signature, an
\* assignment and pattern matches has been analysed
C6_UnknownWithCode ==
    \E f \in Analysed :
        /\ UnknownExt(f.path)
        /\ Contains(f.content, LineDef) /\ Contains(f.content, LineVar)
        /\ Len(FindingsOf(f.path)) >= 2

\* C7: for every analysed file the descriptors of extract_functions are in
\* the order of the text: no descriptor comes after one whose signature is on
\* a later line.
C7_AppearanceOrder ==
    \A f \in Analysed :
        LET functions == extract_functions(f.path, f.content)
        IN  \A a, b \in DOMAIN functions :
                a < b => functions[a].start_line <= functions[b].start_line

\* what the listing and the configuration determine all_issues to be once n
\* files are analysed
ExpectedIssues(n) ==
    Flat([k \in 1..n |-> FileIssues(get_changed_files(listing)[k].path,
                                    get_changed_files(listing)[k].content)])

\* C8: the findings gathered so far, and their order, are a function of the
\* file set and the configuration alone, so two runs on the same inputs gather
\* the same findings in the same order.
C8_Determinism ==
    all_issues = ExpectedIssues(idx)

\* a run over two files each of which gave findings has returned
C8_TwoFilesWithFindings ==
    /\ pc = "done" /\ idx = 2
    /\ \A f \in Analysed : FindingsOf(f.path) # <<>>

C10_LengthBoundary ==
    \A f \in Analysed :
        LET functions == extract_functions(f.path, f.content)
            count(func) ==
                Cardinality({k \in DOMAIN LengthFindings(f.path) :
                                /\ LengthFindings(f.path)[k].function = func.name
                                /\ LengthFindings(f.path)[k].line = func.start_line})
        IN  \A j \in DOMAIN functions :
                /\ Len(functions[j].lines) = config.max_lines => count(functions[j]) = 0
                /\ Len(functions[j].lines) = config.max_lines + 1 => count(functions[j]) = 1

\* under the module's thresholds a function of exactly 50 lines and one of 51
\* lines have been analysed
C10_BothSidesOfFifty ==
    /\ config = DefaultConfig
    /\ \E f \in Analysed : \E j \in DOMAIN extract_functions(f.path, f.content) :
           Len(extract_functions(f.path, f.content)[j].lines) = 50
    /\ \E f \in Analysed : \E j \in DOMAIN extract_functions(f.path, f.content) :
           Len(extract_functions(f.path, f.content)[j].lines) = 51
    /\ Len(all_issues) = 1

\* the parameter_count findings among a file's findings
ParamFindings(path) ==
    Flat([k \in 1..Len(all_issues) |->
            IF /\ all_issues[k].file = path
               /\ all_issues[k].issue_type = "code_complexity"
               /\ all_issues[k].complexity_type = "parameter_count"
            THEN <<all_issues[k]>> ELSE <<>>])

\* C11: for every function of an analysed file, exactly max_params
\* parameters give no parameter_count finding and max_params + 1 parameters
\* give exactly one.
C11_ParamBoundary ==
    \A f \in Analysed :
        LET functions == extract_functions(f.path, f.content)
            count(func) ==
                Cardinality({k \in DOMAIN ParamFindings(f.path) :
                                /\ ParamFindings(f.path)[k].function = func.name
                                /\ ParamFindings(f.path)[k].line = func.start_line})
        IN  \A j \in DOMAIN functions :
                /\ Len(functions[j].parameters) = config.max_params => count(functions[j]) = 0
                /\ Len(functions[j].parameters) = config.max_params + 1 => count(functions[j]) = 1

\* under the module's thresholds a file with a function of exactly 5
\* parameters and one of 6 parameters has been analysed, with one finding
C11_BothSidesOfFive ==
    /\ config = DefaultConfig
    /\ \E f \in Analysed :
          LET functions == extract_functions(f.path, f.content)
          IN  /\ \E j \in DOMAIN functions : Len(functions[j].parameters) = 5
              /\ \E j \in DOMAIN functions : Len(functions[j].parameters) = 6
    /\ Len(all_issues) = 1
    /\ all_issues[1].complexity_type = "parameter_count"

\* the naming_convention findings among a file's findings
NamingFindings(path) ==
    Flat([k \in 1..Len(all_issues) |->
            IF all_issues[k].file = path /\ all_issues[k].issue_type = "naming_convention"
            THEN <<all_issues[k]>> ELSE <<>>])

\* the files in which an identifier is declared as a function or a variable
Declares(f, name) ==
    /\ FileType(f.path) # "none"
    /\ f.content \in {PyVarContent(name), PyDefContent(name),
                      JsVarContent(name), JsFunctionContent(name)}

\* C12: once a file that declares My_Value as a function or a variable has
\* been analysed, all_issues holds exactly one naming finding whose name is
\* My_Value, of severity medium, for the function or variable role.
C12_MyValueOneFinding ==
    \A f \in Analysed :
        Declares(f, MyUnderscoreValue)
        => LET found == Flat([k \in DOMAIN NamingFindings(f.path) |->
                                IF NamingFindings(f.path)[k].name = MyUnderscoreValue
                                THEN <<NamingFindings(f.path)[k]>> ELSE <<>>])
           IN  /\ Len(found) = 1
               /\ found[1].severity = "medium"
               /\ found[1].element_type \in {"function", "variable"}

\* C13: once a file that declares myValue as a function or a variable has
\* been analysed, the rule of the function role and the rule of the variable
\* role accept the name myValue, and no naming finding of the file has that
\* name.
C13_CamelCasePasses ==
    \A f \in Analysed :
        Declares(f, MyCamelValue)
        => /\ FullMatch(NamingRules("function").pattern, MyCamelValue)
           /\ FullMatch(NamingRules("variable").pattern, MyCamelValue)
           /\ \A k \in DOMAIN NamingFindings(f.path) :
                  NamingFindings(f.path)[k].name # MyCamelValue

\* the findings of one common_issues pattern among a file's findings
PatternFindings(path, issue_name) ==
    Flat([k \in 1..Len(all_issues) |->
            IF /\ all_issues[k].file = path
               /\ all_issues[k].issue_type = "common_issue"
               /\ all_issues[k].issue_name = issue_name
            THEN <<all_issues[k]>> ELSE <<>>])

Configured(issue_name) ==
    \E p \in DOMAIN config.issue_names : config.issue_names[p] = issue_name

\* the debug markers, as literal texts; no two of them can overlap in a text
DebugMarkers == { <<"c","o","n","s","o","l","e",".","l","o","g">>, <<"p","r","i","n","t">>,
                  <<"d","e","b","u","g","g","e","r">>, <<"T","O","D","O">>, <<"F","I","X","M","E">> }

\* text occurs in content at index i
OccursAt(content, i, text) ==
    i + Len(text) - 1 <= Len(content) /\ SubSeq(content, i, i + Len(text) - 1) = text

\* the indices of content at which a debug marker occurs
MarkerPositions(content) ==
    {i \in 1..Len(content) : \E m \in DebugMarkers : OccursAt(content, i, m)}

\* C14: the debug_code findings of an analysed file are one per occurrence
\* of a debug marker in its content, in the order of the text, each of
\* severity medium and each carrying the marker of its own occurrence; two
\* distinct markers so give two findings with two different match texts.
C14_FindingPerDebugMarker ==
    \A f \in Analysed :
        Configured("debug_code")
        => LET found == PatternFindings(f.path, "debug_code")
               occ == MarkerPositions(f.content)
               kth(k) == CHOOSE i \in occ : Cardinality({j \in occ : j < i}) = k - 1
           IN  /\ Len(found) = Cardinality(occ)
               /\ \A k \in DOMAIN found :
                      /\ found[k].severity = "medium"
                      /\ found[k].match \in DebugMarkers
                      /\ OccursAt(f.content, kth(k), found[k].match)

\* a file whose only pattern matches are two different debug markers has been
\* analysed and gave two findings with different match texts
C14_TwoDistinctMarkers ==
    \E f \in Analysed :
        /\ Cardinality(MarkerPositions(f.content)) = 2
        /\ Len(FindingsOf(f.path)) = 2
        /\ \A k \in 1..2 : FindingsOf(f.path)[k].issue_type = "common_issue"
                            /\ FindingsOf(f.path)[k].issue_name = "debug_code"
        /\ FindingsOf(f.path)[1].match # FindingsOf(f.path)[2].match

\* the first index from j on that holds no whitespace, Len(s) + 1 when none
NextNonSpace(s, j) == Min({k \in j..Len(s) : s[k] \notin Space} \cup {Len(s) + 1})

\* the index of the closing brace of the catch block that starts at i, when
\* the keyword catch at i is followed by a parenthesised binding and by
\* braces that hold nothing but whitespace; 0 otherwise
EmptyCatchEnd(s, i) ==
    LET a == NextNonSpace(s, i + 5)
        b == Min({k \in (a + 1)..Len(s) : s[k] = ")"} \cup {Len(s) + 1})
        c == NextNonSpace(s, b + 1)
        d == NextNonSpace(s, c + 1)
    IN  IF /\ OccursAt(s, i, <<"c","a","t","c","h">>)
           /\ a <= Len(s) /\ s[a] = "("
           /\ b <= Len(s) /\ s[b] = ")"
           /\ c <= Len(s) /\ s[c] = "{"
           /\ d <= Len(s) /\ s[d] = "}"
        THEN d ELSE 0

\* the start indices of the empty catch blocks of s; a block whose keyword
\* stands between the parentheses of another is part of that one
EmptyCatchStarts(s) ==
    {i \in 1..Len(s) :
        /\ EmptyCatchEnd(s, i) # 0
        /\ \A j \in 1..(i - 1) : EmptyCatchEnd(s, j) < i}

\* C15: every catch block of an analysed file whose braces hold only
\* whitespace, on one line or over several, gives exactly one empty_catch
\* finding that carries the block's text, with the message "Empty catch block
\* detected" and severity medium; a file without such a block gives none.
C15_EmptyCatchFlagged ==
    \A f \in Analysed :
        Configured("empty_catch")
        => LET found == PatternFindings(f.path, "empty_catch")
               starts == EmptyCatchStarts(f.content)
               text(i) == SubSeq(f.content, i, EmptyCatchEnd(f.content, i))
           IN  /\ Len(found) = Cardinality(starts)
               /\ \A i \in starts :
                      Cardinality({k \in DOMAIN found : found[k].match = text(i)})
                          = Cardinality({j \in starts : text(j) = text(i)})
               /\ \A k \in DOMAIN found :
                      /\ found[k].message = "Empty catch block detected"
                      /\ found[k].severity = "medium"

\* a file with an empty catch block that spans three lines has been analysed
\* and gave one finding, whose text holds the line breaks
C15_MultiLineEmptyCatch ==
    \E f \in Analysed :
        /\ Cardinality(EmptyCatchStarts(f.content)) = 1
        /\ Len(FindingsOf(f.path)) = 1
        /\ FindingsOf(f.path)[1].issue_name = "empty_catch"
        /\ CountChar(FindingsOf(f.path)[1].match, NL) = 2

\* the findings of all_issues with a given severity, in the order of all_issues
IssuesOfSeverity(sev) ==
    Flat([k \in 1..Len(all_issues) |->
            IF all_issues[k].severity = sev THEN <<all_issues[k]>> ELSE <<>>])

\* the findings of all_issues with a given issue type, in the order of all_issues
IssuesOfType(type) ==
    Flat([k \in 1..Len(all_issues) |->
            IF all_issues[k].issue_type = type THEN <<all_issues[k]>> ELSE <<>>])

\* C16: all_issues is the concatenation, file after file, of what the three
\* checks return for each analysed file; every match of a configured pattern
\* has a finding of its own, identical or not; the group of a severity and the
\* group of an issue type hold their findings in the order of all_issues, and
\* the groups of the report together hold as many findings as all_issues.
C16_AdditiveAggregation ==
    /\ all_issues =
          Flat([k \in 1..idx |->
                  check_naming_conventions(files_with_content[k].path,
                                           files_with_content[k].content)
                  \o check_code_complexity(files_with_content[k].path,
                                           files_with_content[k].content)
                  \o check_common_issues(files_with_content[k].path,
                                         files_with_content[k].content)])
    /\ \A f \in Analysed : \A p \in DOMAIN config.issue_names :
          Len(PatternFindings(f.path, config.issue_names[p]))
              = Len(FindIter(CommonIssuePatterns(config.issue_names[p]).pattern, f.content))
    /\ \A k \in DOMAIN Severities :
          BySeverity(all_issues, Severities[k]) = IssuesOfSeverity(Severities[k])
    /\ pc \in {"output", "done"} /\ ~report.empty
       => /\ \A n \in DOMAIN report.by_type :
                report.by_type[n].issues = IssuesOfType(report.by_type[n].issue_type)
          /\ Len(Flat([n \in DOMAIN report.by_type |-> report.by_type[n].issues]))
                = Len(all_issues)
          /\ \A n \in DOMAIN report.summary :
                report.summary[n].count = Len(IssuesOfSeverity(report.summary[n].severity))

\* the report has been generated from findings two of which are equal in
\* every field, and its group holds both
C16_IdenticalFindingsKept ==
    /\ pc = "done" /\ ~report.empty
    /\ \E j, k \in DOMAIN all_issues : j < k /\ SameFinding(all_issues[j], all_issues[k])
    /\ \E n \in DOMAIN report.by_type :
          \E j, k \in DOMAIN report.by_type[n].issues :
              j < k /\ SameFinding(report.by_type[n].issues[j], report.by_type[n].issues[k])

\* the severity the rule behind a finding gives it
RuleSeverity(issue) ==
    IF issue.issue_type = "common_issue"
    THEN CommonIssuePatterns(issue.issue_name).severity
    ELSE "medium"

\* every finding gathered so far is a finding of the checks on an analysed
\* file, names that file, and has the severity of its rule
FindingsProvenance ==
    \A k \in DOMAIN all_issues :
        /\ \E f \in Analysed :
              /\ all_issues[k].file = f.path
              /\ \E j \in DOMAIN FileIssues(f.path, f.content) :
                    SameFinding(FileIssues(f.path, f.content)[j], all_issues[k])
        /\ all_issues[k].severity = RuleSeverity(all_issues[k])

\* the findings the report lists are records of all_issues, field for field
ReportKeepsFindings ==
    pc \in {"output", "done"} /\ ~report.empty
    => \A n \in DOMAIN report.by_type : \A j \in DOMAIN report.by_type[n].issues :
           \E k \in DOMAIN all_issues : SameFinding(all_issues[k], report.by_type[n].issues[j])

\* C17: in every state each finding names the analysed file whose content
\* the checks derived it from and has the severity of the rule that made it;
\* no step changes a finding that all_issues already holds, and the report
\* lists the findings as they are.
C17_FindingsImmutable ==
    /\ [](FindingsProvenance /\ ReportKeepsFindings)
    /\ [][\A k \in DOMAIN all_issues :
              k \in DOMAIN all_issues' /\ SameFinding(all_issues'[k], all_issues[k])]_vars

\* the report has been generated from findings of two files, of severity
\* high and of severity medium
C17_TwoFilesTwoSeverities ==
    /\ pc = "done" /\ ~report.empty
    /\ \E j, k \in DOMAIN all_issues :
          /\ all_issues[j].file # all_issues[k].file
          /\ all_issues[j].severity = "high"
          /\ all_issues[k].severity = "medium"
    /\ Len(Flat([n \in DOMAIN report.by_type |-> report.by_type[n].issues])) = Len(all_issues)

\* the names the n-th naming pattern of a file's type extracts from it, one
\* per occurrence
ExtractedNames(f, n) ==
    FindAllNames(NamingPatterns(FileType(f.path))[n].pattern,
                 NamingPatterns(FileType(f.path))[n].groups, f.content)

\* name fails the convention of the role
FailsRule(element_type, name) == ~FullMatch(NamingRules(element_type).pattern, name)

\* C18: for an analysed file of a known type and each role, a name the
\* role's pattern extracts has as many naming findings as it has extracted
\* occurrences when it fails the role's rule and none when it satisfies it;
\* the file has no other naming finding, and each one has severity medium.
C18_FindingPerFailingOccurrence ==
    \A f \in Analysed :
        FileType(f.path) # "none"
        => LET found == NamingFindings(f.path)
               patterns == NamingPatterns(FileType(f.path))
               of(n, name) == {k \in DOMAIN found :
                                  /\ found[k].element_type = patterns[n].element_type
                                  /\ found[k].name = name}
               occurrences(n, name) ==
                   {k \in DOMAIN ExtractedNames(f, n) : ExtractedNames(f, n)[k] = name}
           IN  /\ \A n \in DOMAIN patterns : \A k \in DOMAIN ExtractedNames(f, n) :
                      Cardinality(of(n, ExtractedNames(f, n)[k]))
                          = IF FailsRule(patterns[n].element_type, ExtractedNames(f, n)[k])
                            THEN Cardinality(occurrences(n, ExtractedNames(f, n)[k]))
                            ELSE 0
               /\ \A k \in DOMAIN found :
                      /\ found[k].severity = "medium"
                      /\ \E n \in DOMAIN patterns :
                            /\ found[k].element_type = patterns[n].element_type
                            /\ occurrences(n, found[k].name) # {}

\* a file has been analysed in which a failing name occurs twice and gave
\* two findings, next to extracted names that satisfy their rule and gave none
C18_FailingNameTwice ==
    \E f \in Analysed :
        /\ FileType(f.path) # "none"
        /\ Len(NamingFindings(f.path)) = 2
        /\ NamingFindings(f.path)[1].name = NamingFindings(f.path)[2].name
        /\ \E n \in DOMAIN NamingPatterns(FileType(f.path)) :
              \E k \in DOMAIN ExtractedNames(f, n) :
                  ~FailsRule(NamingPatterns(FileType(f.path))[n].element_type,
                             ExtractedNames(f, n)[k])

\* the content of a listed file can be obtained
Obtainable(file) == file.exists /\ file.readable

\* the indices of the listing whose content can be obtained, and the number
\* of them up to index k
ObtainableUpTo(k) == Cardinality({j \in 1..k : Obtainable(listing.files[j])})

\* C19: once the listing has been read, a listed path that is missing or
\* cannot be read is absent from files_with_content and every other listed
\* file is in it with its content, in the order of the listing; no finding
\* names a skipped path; a run is ended early only by a rule pattern that
\* fails to compile, and a run that returns has analysed every file read.
C19_UnreadableSkipped ==
    pc # "start" /\ listing.git_ok
    => /\ Len(files_with_content) = ObtainableUpTo(Len(listing.files))
       /\ \A k \in DOMAIN listing.files :
             IF Obtainable(listing.files[k])
             THEN /\ files_with_content[ObtainableUpTo(k)].path = listing.files[k].path
                  /\ files_with_content[ObtainableUpTo(k)].content = listing.files[k].content
             ELSE /\ \A j \in DOMAIN files_with_content :
                        files_with_content[j].path # listing.files[k].path
                  /\ FindingsOf(listing.files[k].path) = <<>>
       /\ pc = "crashed"
          => match_file_to_rules(files_with_content[idx + 1].path, cursor_rules).raised
       /\ pc = "done" => idx = Len(files_with_content)

\* a run has returned whose listing began with a path that raised on read
\* or was missing, and the file listed after it was analysed and gave findings
C19_SkippedThenAnalysed ==
    /\ pc = "done"
    /\ Len(listing.files) = 2
    /\ ~Obtainable(listing.files[1])
    /\ \E f \in Analysed : f.path = listing.files[2].path /\ FindingsOf(f.path) # <<>>

\* C20: a run that has ended has ended by returning from main, after the
\* report was generated from the findings of every file of the file set, the
\* empty file set included.
C20_EndsReported ==
    pc \in {"done", "crashed"}
    => /\ pc = "done"
       /\ idx = Len(files_with_content)
       /\ report # NoReport
       /\ report = generate_pr_review_report(all_issues, applicable_rule_details)

\* the lines that follow a signature match: content[match.end():].split('\n')
RestLines(content, m) == Split(SubSeq(content, m.e, Len(content)), NL)

\* the matches of the n-th JavaScript function pattern in a file, and the
\* descriptors extract_functions makes of them
JsMatches(f, n) == FindIter(JsFunctionPatterns[n].pattern, f.content)
JsDescriptors(f, n) == FunctionsOf(f.content, JsFunctionPatterns[n], TRUE)

\* the body the specification describes: from the first line with an opening
\* brace to the first line, that one included, at which the running count of
\* opening minus closing braces is zero or below
BalancedBody(lines) ==
    LET opens == {i \in 1..Len(lines) : Contains(lines[i], <<"{">>)}
        first == Min(opens)
        running[k \in first..Len(lines)] ==
            (IF k = first THEN 0 ELSE running[k - 1])
                + CountChar(lines[k], "{") - CountChar(lines[k], "}")
        ends == {k \in first..Len(lines) : running[k] <= 0}
    IN  IF opens = {} THEN <<>>
        ELSE SubSeq(lines, first, IF ends = {} THEN Len(lines) ELSE Min(ends))

\* C21: the body of every function of an analysed JavaScript or TypeScript
\* file runs from the first line with an opening brace to the first line at
\* which the running brace count is zero or below, the line of the first
\* brace included: braces that balance on that line give a body of one line.
C21_BraceBodyEndsAtZero ==
    \A f \in Analysed :
        FileType(f.path) = "javascript"
        => \A n \in DOMAIN JsFunctionPatterns : \A k \in DOMAIN JsMatches(f, n) :
               JsDescriptors(f, n)[k].lines
                   = BalancedBody(RestLines(f.content, JsMatches(f, n)[k]))

\* the matches of the Python function pattern in a file, and the descriptors
\* extract_functions makes of them
PyMatches(f) == FindIter(PyFunctionPattern, f.content)
PyDescriptors(f) == extract_functions(f.path, f.content)

Blank(line) == \A i \in DOMAIN line : line[i] \in Space

\* the number of whitespace characters a line begins with
LeadingWidth(line) ==
    Min({i \in 1..Len(line) : line[i] \notin Space} \cup {Len(line) + 1}) - 1

\* body is what the indentation rule selects from the lines after a
\* signature: it starts at the first non-blank line, holds the lines that
\* follow while they are blank or indented more than that line, and is cut
\* before the first non-blank line that is not
IsIndentedBody(body, lines) ==
    IF \A i \in DOMAIN lines : Blank(lines[i]) THEN body = <<>>
    ELSE \E i \in DOMAIN lines : \E last \in i..Len(lines) :
            /\ \A j \in 1..(i - 1) : Blank(lines[j])
            /\ ~Blank(lines[i])
            /\ body = SubSeq(lines, i, last)
            /\ \A j \in (i + 1)..last :
                  Blank(lines[j]) \/ LeadingWidth(lines[j]) > LeadingWidth(lines[i])
            /\ last < Len(lines)
               => ~Blank(lines[last + 1])
                  /\ LeadingWidth(lines[last + 1]) <= LeadingWidth(lines[i])

\* C22: the body of every function of an analysed Python file starts at the
\* first non-blank line after the signature match and holds every following
\* line, blank ones included, up to but excluding the first non-blank line
\* whose leading whitespace is not wider than that of the first body line.
C22_IndentBody ==
    \A f \in Analysed :
        FileType(f.path) = "python"
        => /\ Len(PyDescriptors(f)) = Len(PyMatches(f))
           /\ \A k \in DOMAIN PyMatches(f) :
                 IsIndentedBody(PyDescriptors(f)[k].lines,
                                RestLines(f.content, PyMatches(f)[k]))

\* a Python function has been analysed whose body holds a blank line and is
\* cut before a non-blank line of the body's own indentation
C22_BodyCutAtEqualIndent ==
    \E f \in Analysed :
        /\ FileType(f.path) = "python"
        /\ \E k \in DOMAIN PyDescriptors(f) :
              LET body == PyDescriptors(f)[k].lines
                  all == Split(f.content, NL)
              IN  /\ Len(body) = 3 /\ body[2] = <<>>
                  /\ Len(all) = 5
                  /\ LeadingWidth(all[5]) = LeadingWidth(body[1])

\* the raw parameter string split at the commas that stand outside every
\* bracket, each token stripped, the empty ones dropped
SplitTopLevel(params_str) ==
    LET depth(i) == Cardinality({j \in 1..i : params_str[j] \in {"(", "[", "{"}})
                      - Cardinality({j \in 1..i : params_str[j] \in {")", "]", "}"}})
        cuts == {i \in 1..Len(params_str) : params_str[i] = "," /\ depth(i) = 0}
        \* the k-th cut, 0 before the first and Len + 1 after the last
        cut(k) == IF k = 0 THEN 0
                  ELSE IF k > Cardinality(cuts) THEN Len(params_str) + 1
                  ELSE CHOOSE i \in cuts : Cardinality({j \in cuts : j < i}) = k - 1
    IN  DropEmpty(Tuple([k \in 1..(Cardinality(cuts) + 1) |->
                           Strip(SubSeq(params_str, cut(k - 1) + 1, cut(k) - 1))]))

\* C23: in both families the parameters of every descriptor of an analysed
\* file are the parameter string of its signature split at top-level commas
\* only, stripped, without empty tokens; an empty or blank parameter string
\* gives no parameter.
C23_TopLevelCommas ==
    \A f \in Analysed :
        /\ FileType(f.path) = "python"
           => \A k \in DOMAIN PyMatches(f) :
                  PyDescriptors(f)[k].parameters
                      = SplitTopLevel(Group(f.content, PyMatches(f)[k], 2))
        /\ FileType(f.path) = "javascript"
           => \A n \in DOMAIN JsFunctionPatterns : \A k \in DOMAIN JsMatches(f, n) :
                  JsDescriptors(f, n)[k].parameters
                      = SplitTopLevel(Group(f.content, JsMatches(f, n)[k],
                                            JsFunctionPatterns[n].params_group))

\* no opening brace stands in content from index i on
NoBraceFrom(content, i) == \A j \in i..Len(content) : content[j] # "{"

\* C24: every signature match in an analysed JavaScript or TypeScript file
\* has its descriptor, with the name and the start line of the match; when no
\* opening brace follows the match anywhere in the content, the descriptor's
\* body is empty.
C24_NoBraceStillRecorded ==
    \A f \in Analysed :
        FileType(f.path) = "javascript"
        => /\ Len(extract_functions(f.path, f.content))
                = Len(Flat([n \in DOMAIN JsFunctionPatterns |-> JsMatches(f, n)]))
           /\ \A n \in DOMAIN JsFunctionPatterns :
                 /\ Len(JsDescriptors(f, n)) = Len(JsMatches(f, n))
                 /\ \A k \in DOMAIN JsMatches(f, n) :
                       /\ JsDescriptors(f, n)[k].name
                             = Group(f.content, JsMatches(f, n)[k],
                                     JsFunctionPatterns[n].name_group)
                       /\ NoBraceFrom(f.content, JsMatches(f, n)[k].e)
                          => JsDescriptors(f, n)[k].lines = <<>>

\* a JavaScript file has been analysed that holds a signature with
\* parameters and no opening brace after it, recorded with an empty body
C24_SignatureWithoutBrace ==
    \E f \in Analysed :
        /\ FileType(f.path) = "javascript"
        /\ NoBraceFrom(f.content, 1)
        /\ \E k \in DOMAIN extract_functions(f.path, f.content) :
              /\ extract_functions(f.path, f.content)[k].lines = <<>>
              /\ extract_functions(f.path, f.content)[k].parameters # <<>>

\* the text a naming or pattern finding was made for
FindingText(issue) ==
    IF issue.issue_type = "naming_convention" THEN issue.name ELSE issue.match

\* the numbers of the lines of content that contain text
LinesWith(content, text) ==
    {i \in DOMAIN Split(content, NL) : Contains(Split(content, NL)[i], text)}

\* the number of the line on which index i of content stands
LineOf(content, i) == CountChar(SubSeq(content, 1, i - 1), NL) + 1

\* C25: the line of every naming and pattern finding of an analysed file is
\* the number of the first line of the content that contains the finding's
\* text, and 1 when no single line contains it; a pattern finding's line is
\* never later than the line on which its match starts.
C25_FirstLineWithText ==
    \A f \in Analysed :
        /\ \A k \in DOMAIN FindingsOf(f.path) :
              FindingsOf(f.path)[k].issue_type \in {"naming_convention", "common_issue"}
              => LET line == FindingsOf(f.path)[k].line
                     with == LinesWith(f.content, FindingText(FindingsOf(f.path)[k]))
                 IN  IF with = {} THEN line = 1
                     ELSE line \in with /\ \A i \in with : line <= i
        /\ \A p \in DOMAIN config.issue_names :
              \A k \in DOMAIN PatternFindings(f.path, config.issue_names[p]) :
                  PatternFindings(f.path, config.issue_names[p])[k].line
                      <= LineOf(f.content,
                                FindIter(CommonIssuePatterns(config.issue_names[p]).pattern,
                                         f.content)[k].st)

\* a file has been analysed that gave two naming findings on one line for a
\* name declared on two lines, and a pattern finding on line 1 for a match
\* that starts on a later line and spans two
C25_DuplicateAndSpanning ==
    \E f \in Analysed :
        /\ \E j, k \in DOMAIN NamingFindings(f.path) :
              /\ j < k
              /\ NamingFindings(f.path)[j].name = NamingFindings(f.path)[k].name
              /\ NamingFindings(f.path)[j].line = NamingFindings(f.path)[k].line
              /\ Cardinality(LinesWith(f.content, NamingFindings(f.path)[k].name)) = 2
        /\ \E k \in DOMAIN PatternFindings(f.path, "empty_catch") :
              /\ PatternFindings(f.path, "empty_catch")[k].line = 1
              /\ CountChar(PatternFindings(f.path, "empty_catch")[k].match, NL) = 1
              /\ LineOf(f.content,
                        FindIter(CommonIssuePatterns("empty_catch").pattern, f.content)[k].st) = 3

\* the code_complexity findings among a file's findings
ComplexityFindings(path) ==
    Flat([k \in 1..Len(all_issues) |->
            IF all_issues[k].file = path /\ all_issues[k].issue_type = "code_complexity"
            THEN <<all_issues[k]>> ELSE <<>>])

\* C26: the configuration carries the nesting-depth threshold, and no
\* finding has the complexity type nested_depth: the complexity findings of
\* an analysed file are function_length and parameter_count findings, at most
\* one of each for a descriptor, reported for the descriptor's name at its
\* start line.
C26_DepthNeverEvaluated ==
    /\ config.max_depth = 3
    /\ \A f \in Analysed :
          LET functions == extract_functions(f.path, f.content)
              found == ComplexityFindings(f.path)
              same(j) == {i \in DOMAIN functions :
                             /\ functions[i].name = functions[j].name
                             /\ functions[i].start_line = functions[j].start_line}
              of(j, type) == {k \in DOMAIN found :
                                 /\ found[k].complexity_type = type
                                 /\ found[k].function = functions[j].name
                                 /\ found[k].line = functions[j].start_line}
          IN  /\ Len(found) <= 2 * Len(functions)
              /\ \A k \in DOMAIN found :
                    /\ found[k].complexity_type \in {"function_length", "parameter_count"}
                    /\ \E j \in DOMAIN functions :
                          /\ found[k].function = functions[j].name
                          /\ found[k].line = functions[j].start_line
              /\ \A j \in DOMAIN functions :
                    \A type \in {"function_length", "parameter_count"} :
                        Cardinality(of(j, type)) <= Cardinality(same(j))

\* a function nested deeper than max_depth, longer than max_lines and with
\* more than max_params parameters has been analysed and gave two findings
C26_DeepFunctionTwoFindings ==
    \E f \in Analysed :
        /\ Len(extract_functions(f.path, f.content)) = 1
        /\ NestingDepth(extract_functions(f.path, f.content)[1]) > config.max_depth
        /\ Len(ComplexityFindings(f.path)) = 2
        /\ ComplexityFindings(f.path)[1].complexity_type = "function_length"
        /\ ComplexityFindings(f.path)[2].complexity_type = "parameter_count"

\* C27: when main has returned, its status is 1 if all_issues holds a
\* finding, of whatever severity, and 0 otherwise; with an empty file set it
\* is 0, no file was analysed and no report was generated.
C27_ExitStatus ==
    pc = "done"
    => /\ exit_code = (IF Len(all_issues) > 0 THEN 1 ELSE 0)
       /\ files_with_content = <<>>
          => exit_code = 0 /\ idx = 0 /\ all_issues = <<>> /\ report = NoReport
       /\ files_with_content # <<>> => report # NoReport

\* main has returned 0 on a listing none of whose paths could be read,
\* without a report
C27_EmptySetReturnsZero ==
    /\ pc = "done" /\ exit_code = 0
    /\ listing.files # <<>> /\ files_with_content = <<>>
    /\ report = NoReport

\* the sum of the counts of the report's summary lines
SummaryTotal ==
    LET sum[n \in 0..Len(report.summary)] ==
            IF n = 0 THEN 0 ELSE sum[n - 1] + report.summary[n].count
    IN  sum[Len(report.summary)]

\* C28: every finding has severity high or medium, and high only when the
\* hardcoded_secrets pattern made it; none is critical or low, so that the
\* counts of the summary of a generated report add up to the number of
\* findings.
C28_SeverityRange ==
    /\ \A k \in DOMAIN all_issues :
          /\ all_issues[k].severity \in {"high", "medium"}
          /\ all_issues[k].severity = "high"
             => /\ all_issues[k].issue_type = "common_issue"
                /\ all_issues[k].issue_name = "hardcoded_secrets"
    /\ pc \in {"output", "done"} /\ ~report.empty
       => /\ SummaryTotal = Len(all_issues)
          /\ \A n \in DOMAIN report.summary :
                report.summary[n].severity \in {"high", "medium"}

\* a report has been generated whose summary counts high findings and
\* medium findings of all three checks
C28_HighAndMediumCounted ==
    /\ pc \in {"output", "done"} /\ ~report.empty
    /\ Len(report.summary) = 2
    /\ report.summary[1].severity = "high" /\ report.summary[2].severity = "medium"
    /\ Len(report.by_type) = 3
    /\ SummaryTotal = Len(all_issues)

\* only whitespace stands in content from index i on
OnlySpaceFrom(content, i) == \A j \in i..Len(content) : content[j] \in Space

\* C29: every signature match in an analysed Python file has its
\* descriptor, with the name and the parameters of the match; when nothing
\* but blank lines, or nothing at all, follows the match, the descriptor's
\* body is empty.
C29_NothingAfterSignature ==
    \A f \in Analysed :
        FileType(f.path) = "python"
        => \A k \in DOMAIN PyMatches(f) :
               /\ k \in DOMAIN PyDescriptors(f)
               /\ PyDescriptors(f)[k].name = Group(f.content, PyMatches(f)[k], 1)
               /\ PyDescriptors(f)[k].start_line = LineOf(f.content, PyMatches(f)[k].e)
               /\ OnlySpaceFrom(f.content, PyMatches(f)[k].e)
                  => PyDescriptors(f)[k].lines = <<>>

\* a Python file has been analysed whose signature is followed by a line
\* break and nothing else, recorded with its parameters and an empty body
C29_SignatureThenBlank ==
    \E f \in Analysed :
        /\ FileType(f.path) = "python"
        /\ Len(PyMatches(f)) = 1
        /\ PyMatches(f)[1].e = Len(f.content)
        /\ f.content[Len(f.content)] = NL
        /\ PyDescriptors(f)[1].lines = <<>>
        /\ PyDescriptors(f)[1].parameters # <<>>

\* the number of lines of a content: its line breaks plus one
LineCount(content) == CountChar(content, NL) + 1

\* C30: the line of every finding of an analysed file, and the start line
\* of every function descriptor of the file, is at least 1 and at most the
\* number of lines of the file's content.
C30_LineWithinContent ==
    \A f \in Analysed :
        /\ \A k \in DOMAIN FindingsOf(f.path) :
              /\ FindingsOf(f.path)[k].line >= 1
              /\ FindingsOf(f.path)[k].line <= LineCount(f.content)
        /\ \A k \in DOMAIN extract_functions(f.path, f.content) :
              /\ extract_functions(f.path, f.content)[k].start_line >= 1
              /\ extract_functions(f.path, f.content)[k].start_line <= LineCount(f.content)

\* a file of several lines has been analysed that gave a finding on its
\* last line, a naming finding on an earlier line and a pattern finding, on
\* line 1, for a text that no line contains
C30_FirstLastAndDefault ==
    \E f \in Analysed :
        /\ LineCount(f.content) > 1
        /\ \E k \in DOMAIN FindingsOf(f.path) :
              FindingsOf(f.path)[k].line = LineCount(f.content)
        /\ \E k \in DOMAIN FindingsOf(f.path) :
              /\ FindingsOf(f.path)[k].issue_type = "naming_convention"
              /\ FindingsOf(f.path)[k].line < LineCount(f.content)
        /\ \E k \in DOMAIN FindingsOf(f.path) :
              /\ FindingsOf(f.path)[k].issue_type = "common_issue"
              /\ FindingsOf(f.path)[k].line = 1
              /\ LinesWith(f.content, FindingsOf(f.path)[k].match) = {}
====
